---- MODULE Spec2Model ----
(***************************************************************************)
(* MediaOrganizer: the catalog (MediaHandler) and the media record         *)
(* (MediaFile) as a state machine over an explicit file system.            *)
(*                                                                         *)
(* Strings are sequences of one-character strings, so that suffix, stem,   *)
(* lower(), str(path) ordering and template rendering are computed the way *)
(* the code computes them.  A path is the sequence of its components       *)
(* (absolute, POSIX): <<>> is "/", <<in, a.jpg>> is "/in/a.jpg".           *)
(***************************************************************************)
EXTENDS Integers, Sequences, FiniteSets, TLC

VARIABLES
    fs,            \* the file system: path -> entry (a directory or a regular file)
    heap,          \* the MediaFile objects of the current catalog: id -> record
    media_files,   \* MediaHandler.media_files: list of object ids
    file_hashes,   \* MediaHandler._file_hashes: hash -> object id
    scan_stats,    \* MediaHandler.scan_stats
    raised,        \* the exception the last call of the handler ended with, or "none"
    pc,            \* "idle", or "parallel" while _process_files_parallel runs
    tasks,         \* parallel scan: the submitted file paths, in submission order
    started,       \* parallel scan: number of tasks taken from the executor's queue
    running,       \* parallel scan: task -> position of the worker thread running it
    done_q,        \* parallel scan: completed futures not yet yielded by as_completed
    collected,     \* parallel scan: number of futures the collecting loop has handled
    workers,       \* parallel scan: max_workers of the running scan
    org,           \* what the last call returned and printed, if it was organize_files
    calls,         \* number of calls made on the handler and its records
    ret            \* what the last call of a MediaFile method returned

vars == <<fs, heap, media_files, file_hashes, scan_stats, raised, pc, tasks,
          started, running, done_q, collected, workers, org, calls, ret>>

(***************************************************************************)
(* Characters and strings                                                  *)
(***************************************************************************)

\* The characters of the model in code-point order (str comparison is by code point).
CodeOrder ==
    <<" ", "(", ")", "-", ".", "/", "0", "1", "2", "3", "4", "5", "6", "7", "8", "9",
      ":", "A", "B", "C", "D", "E", "F", "G", "H", "I", "J", "K", "L", "M", "N", "O",
      "P", "Q", "R", "S", "T", "U", "V", "W", "X", "Y", "Z", "_", "a", "b", "c", "d",
      "e", "f", "g", "h", "i", "j", "k", "l", "m", "n", "o", "p", "q", "r", "s", "t",
      "u", "v", "w", "x", "y", "z">>

Chars == {CodeOrder[i] : i \in 1..Len(CodeOrder)}

Ord == [c \in Chars |-> CHOOSE i \in 1..Len(CodeOrder) : CodeOrder[i] = c]

UpperCase ==
    <<"A", "B", "C", "D", "E", "F", "G", "H", "I", "J", "K", "L", "M", "N", "O", "P",
      "Q", "R", "S", "T", "U", "V", "W", "X", "Y", "Z">>

LowerCase ==
    <<"a", "b", "c", "d", "e", "f", "g", "h", "i", "j", "k", "l", "m", "n", "o", "p",
      "q", "r", "s", "t", "u", "v", "w", "x", "y", "z">>

LowerChar ==
    [c \in Chars |->
        IF \E i \in 1..Len(UpperCase) : UpperCase[i] = c
        THEN LowerCase[CHOOSE i \in 1..Len(UpperCase) : UpperCase[i] = c]
        ELSE c]

\* str.lower()
Lower(s) == [i \in 1..Len(s) |-> LowerChar[s[i]]]

Digit == <<"0", "1", "2", "3", "4", "5", "6", "7", "8", "9">>

\* str(n) for n >= 0
RECURSIVE IntStr(_)
IntStr(n) == IF n < 10 THEN <<Digit[n + 1]>> ELSE IntStr(n \div 10) \o <<Digit[(n % 10) + 1]>>

\* s < t for strings: lexicographic by code point, a proper prefix is smaller
RECURSIVE StrLess(_, _)
StrLess(s, t) ==
    IF t = <<>> THEN FALSE
    ELSE IF s = <<>> THEN TRUE
    ELSE IF s[1] # t[1] THEN Ord[s[1]] < Ord[t[1]]
    ELSE StrLess(Tail(s), Tail(t))

\* the positions of character c in s
Positions(s, c) == {i \in 1..Len(s) : s[i] = c}

Max(S) == CHOOSE x \in S : \A y \in S : y <= x

(***************************************************************************)
(* pathlib                                                                 *)
(***************************************************************************)

\* PurePath.suffix: from the last dot of the name, unless that dot is the
\* first or the last character of the name
Suffix(name) ==
    LET dots == Positions(name, ".")
    IN IF dots = {} THEN <<>>
       ELSE LET i == Max(dots)
            IN IF 1 < i /\ i < Len(name) THEN SubSeq(name, i, Len(name)) ELSE <<>>

\* PurePath.stem: the name without its suffix
Stem(name) == SubSeq(name, 1, Len(name) - Len(Suffix(name)))

\* PurePath.name: the last component ("" for the root)
Name(p) == IF p = <<>> THEN <<>> ELSE p[Len(p)]

\* PurePath.parent (the root is its own parent)
Parent(p) == IF p = <<>> THEN <<>> ELSE SubSeq(p, 1, Len(p) - 1)

\* str(path)
RECURSIVE PathStr(_)
PathStr(p) ==
    IF p = <<>> THEN <<"/">>
    ELSE IF Len(p) = 1 THEN <<"/">> \o p[1]
    ELSE PathStr(Parent(p)) \o <<"/">> \o Name(p)

IsPrefix(d, p) == Len(d) <= Len(p) /\ SubSeq(p, 1, Len(d)) = d

(***************************************************************************)
(* The file system                                                         *)
(***************************************************************************)

Dir == [kind |-> "dir"]

\* A regular file: its bytes (a content id), whether this process may read
\* them, and its st_ctime.
File(content, readable, ctime) ==
    [kind |-> "file", content |-> content, readable |-> readable, ctime |-> ctime]

Exists(f, p) == p \in DOMAIN f
IsDir(f, p) == Exists(f, p) /\ f[p].kind = "dir"
IsFile(f, p) == Exists(f, p) /\ f[p].kind = "file"

(***************************************************************************)
(* Classification                                                          *)
(***************************************************************************)

IMAGE_EXTENSIONS ==
    {<<".", "j", "p", "g">>, <<".", "j", "p", "e", "g">>, <<".", "p", "n", "g">>,
     <<".", "g", "i", "f">>, <<".", "b", "m", "p">>, <<".", "t", "i", "f", "f">>,
     <<".", "t", "i", "f">>, <<".", "w", "e", "b", "p">>, <<".", "h", "e", "i", "c">>,
     <<".", "h", "e", "i", "f">>, <<".", "r", "a", "w">>, <<".", "c", "r", "2">>,
     <<".", "n", "e", "f">>, <<".", "a", "r", "w">>, <<".", "d", "n", "g">>,
     <<".", "o", "r", "f">>, <<".", "r", "w", "2">>, <<".", "p", "e", "f">>,
     <<".", "s", "r", "w">>}

VIDEO_EXTENSIONS ==
    {<<".", "m", "p", "4">>, <<".", "a", "v", "i">>, <<".", "m", "o", "v">>,
     <<".", "m", "k", "v">>, <<".", "w", "m", "v">>, <<".", "f", "l", "v">>,
     <<".", "w", "e", "b", "m">>, <<".", "m", "4", "v">>, <<".", "3", "g", "p">>,
     <<".", "o", "g", "v">>, <<".", "f", "4", "v">>, <<".", "a", "s", "f">>,
     <<".", "r", "m">>, <<".", "r", "m", "v", "b">>, <<".", "v", "o", "b">>,
     <<".", "t", "s">>, <<".", "m", "t", "s">>, <<".", "m", "2", "t", "s">>}

\* the extension lists local to MediaFile._detect_file_type
image_extensions ==
    {<<".", "j", "p", "g">>, <<".", "j", "p", "e", "g">>, <<".", "p", "n", "g">>,
     <<".", "g", "i", "f">>, <<".", "b", "m", "p">>, <<".", "t", "i", "f", "f">>,
     <<".", "w", "e", "b", "p">>, <<".", "h", "e", "i", "c">>, <<".", "r", "a", "w">>}

video_extensions ==
    {<<".", "m", "p", "4">>, <<".", "a", "v", "i">>, <<".", "m", "o", "v">>,
     <<".", "m", "k", "v">>, <<".", "w", "m", "v">>, <<".", "f", "l", "v">>,
     <<".", "w", "e", "b", "m">>, <<".", "m", "4", "v">>, <<".", "3", "g", "p">>}

\* mimetypes.guess_type(name)[0], reduced to what the callers test: the
\* standard library's built-in table, keyed by the lower-cased extension.
\* "image" is image/*, "video" is video/*, "other" any other type, "none" is None.
MimeImage ==
    {<<".", "j", "p", "g">>, <<".", "j", "p", "e", "g">>, <<".", "p", "n", "g">>,
     <<".", "g", "i", "f">>, <<".", "b", "m", "p">>, <<".", "t", "i", "f", "f">>,
     <<".", "t", "i", "f">>, <<".", "h", "e", "i", "c">>, <<".", "h", "e", "i", "f">>}

MimeVideo ==
    {<<".", "m", "p", "4">>, <<".", "a", "v", "i">>, <<".", "m", "o", "v">>,
     <<".", "w", "e", "b", "m">>}

MimeOther == {<<".", "3", "g", "p">>, <<".", "t", "x", "t">>}

GuessType(name) ==
    LET ext == Lower(Suffix(name))
    IN IF ext \in MimeImage THEN "image"
       ELSE IF ext \in MimeVideo THEN "video"
       ELSE IF ext \in MimeOther THEN "other"
       ELSE "none"

\* MediaHandler._is_media_file
IsMediaFile(p) ==
    LET extension == Lower(Suffix(Name(p)))
    IN extension \in IMAGE_EXTENSIONS \/ extension \in VIDEO_EXTENSIONS

\* MediaHandler._detect_file_type; "none" is None
HandlerDetectFileType(p) ==
    LET extension == Lower(Suffix(Name(p)))
        mime == GuessType(Name(p))
    IN IF extension \in IMAGE_EXTENSIONS THEN "image"
       ELSE IF extension \in VIDEO_EXTENSIONS THEN "video"
       ELSE IF mime \in {"image", "video"} THEN mime
       ELSE "none"

\* MediaFile._detect_file_type; "ValueError" is the raise of line 61
FileDetectFileType(p) ==
    LET mime == GuessType(Name(p))
        ext == Lower(Suffix(Name(p)))
    IN IF mime \in {"image", "video"} THEN mime
       ELSE IF ext \in image_extensions THEN "image"
       ELSE IF ext \in video_extensions THEN "video"
       ELSE "ValueError"

(***************************************************************************)
(* MediaFile                                                               *)
(***************************************************************************)

EmptyDict == [k \in {} |-> <<>>]

\* dict.update: the keys of n override those of m
Update(m, n) == [k \in (DOMAIN m) \cup (DOMAIN n) |-> IF k \in DOMAIN n THEN n[k] ELSE m[k]]

\* dict.get(key, default)
Get(d, key, default) == IF key \in DOMAIN d THEN d[key] ELSE default

\* the dataclass fields after a successful construction
NewMediaFile(p, type) ==
    [path |-> p, type |-> type, metadata |-> EmptyDict, manual_metadata |-> EmptyDict]

\* MediaFile.__post_init__ for a caller-supplied type: "ok", or the exception raised.
PostInit(f, p, type) ==
    IF ~Exists(f, p) THEN "FileNotFoundError"
    ELSE LET detected_type == FileDetectFileType(p)
         IN IF detected_type = "ValueError" THEN "ValueError"
            ELSE IF type \notin {"image", "video"} THEN "ok"
            ELSE IF type # detected_type THEN "ValueError"
            ELSE "ok"

\* hashlib md5 hexdigest of the file's bytes: one digest per content, no collisions
Md5(content) == <<"e">> \o IntStr(content)

\* MediaFile.extract_metadata.  stat() and the read of the bytes succeed for
\* a readable regular file; otherwise the except branch runs.  The image and
\* video extractors add nothing here: PILLOW_AVAILABLE and FFMPEG_AVAILABLE
\* are False (the optional packages are absent).
ExtractMetadata(f, obj) ==
    IF IsFile(f, obj.path) /\ f[obj.path].readable
    THEN [obj EXCEPT !.metadata =
            Update(@, [filename |-> Name(obj.path),
                       created_date |-> f[obj.path].ctime,
                       file_extension |-> Lower(Suffix(Name(obj.path))),
                       file_hash |-> Md5(f[obj.path].content)])]
    ELSE IF obj.metadata = EmptyDict
    THEN [obj EXCEPT !.metadata = [filename |-> Name(obj.path), error |-> "OSError"]]
    ELSE obj

(***************************************************************************)
(* MediaHandler: the catalog.  h is the handler's own state                *)
(* [heap, media_files, file_hashes, scan_stats].                           *)
(***************************************************************************)

\* the scan threshold of scan_directory: parallel only above this many candidates
ParallelThreshold == 10

\* the default of scan_directory's max_workers
DefaultWorkers == 4

ZeroStats ==
    [total_files_found |-> 0, images_found |-> 0, videos_found |-> 0,
     skipped_files |-> 0, errors |-> 0, duplicates_found |-> 0]

\* the reset without _file_hashes.clear()
EmptyHandlerKeepsHashes ==
    [heap |-> EmptyDict, media_files |-> <<>>, file_hashes |-> file_hashes,
     scan_stats |-> ZeroStats]

\* the handler after _reset_scan_stats, media_files.clear, _file_hashes.clear
EmptyHandler ==
    [heap |-> EmptyDict, media_files |-> <<>>, file_hashes |-> EmptyDict,
     scan_stats |-> ZeroStats]

Handler == [heap |-> heap, media_files |-> media_files, file_hashes |-> file_hashes,
            scan_stats |-> scan_stats]

\* MediaHandler._create_media_file up to its return or its counter update:
\* "created", or the scan_stats key the call increments
CreateOutcome(f, p) ==
    LET file_type == HandlerDetectFileType(p)
    IN IF file_type = "none" THEN "skipped_files"
       ELSE IF PostInit(f, p, file_type) # "ok" THEN "errors"
       ELSE "created"

\* MediaHandler._create_media_file run without interruption: the handler
\* afterwards and the object returned (<<>> is None)
CreateMediaFile(h, f, p) ==
    LET outcome == CreateOutcome(f, p)
    IN IF outcome = "created"
       THEN [h |-> h, result |-> <<NewMediaFile(p, HandlerDetectFileType(p))>>]
       ELSE [h |-> [h EXCEPT !.scan_stats[outcome] = @ + 1], result |-> <<>>]

\* _add_media_file without the duplicate test of line 146
AddMediaFileKeepsAll(h, f, id, media_file) ==
    LET obj == ExtractMetadata(f, media_file)
        hashed == "file_hash" \in DOMAIN obj.metadata
        file_hash == obj.metadata["file_hash"]
    IN [h EXCEPT
          !.heap = Update(@, id :> obj),
          !.media_files = Append(@, id),
          !.file_hashes = IF hashed THEN Update(@, file_hash :> id) ELSE @,
          !.scan_stats.images_found = IF obj.type = "image" THEN @ + 1 ELSE @,
          !.scan_stats.videos_found = IF obj.type = "video" THEN @ + 1 ELSE @]

\* _add_media_file dropping a duplicate without counting it (line 148 left out)
AddMediaFileUncounted(h, f, id, media_file) ==
    LET obj == ExtractMetadata(f, media_file)
        hashed == "file_hash" \in DOMAIN obj.metadata
        file_hash == obj.metadata["file_hash"]
    IN IF hashed /\ file_hash \in DOMAIN h.file_hashes
       THEN h
       ELSE AddMediaFileKeepsAll(h, f, id, media_file)

\* _add_media_file counting a record without file_hash as an error and
\* dropping it
AddMediaFileUnhashedIsError(h, f, id, media_file) ==
    LET obj == ExtractMetadata(f, media_file)
        hashed == "file_hash" \in DOMAIN obj.metadata
        file_hash == obj.metadata["file_hash"]
    IN IF ~hashed
       THEN [h EXCEPT !.scan_stats.errors = @ + 1]
       ELSE IF file_hash \in DOMAIN h.file_hashes
       THEN [h EXCEPT !.scan_stats.duplicates_found = @ + 1]
       ELSE AddMediaFileKeepsAll(h, f, id, media_file)

\* _add_media_file without the entry into the hash index (lines 153-154 left out)
AddMediaFileUnindexed(h, f, id, media_file) ==
    LET obj == ExtractMetadata(f, media_file)
        hashed == "file_hash" \in DOMAIN obj.metadata
        file_hash == obj.metadata["file_hash"]
    IN IF hashed /\ file_hash \in DOMAIN h.file_hashes
       THEN [h EXCEPT !.scan_stats.duplicates_found = @ + 1]
       ELSE [h EXCEPT
               !.heap = Update(@, id :> obj),
               !.media_files = Append(@, id),
               !.scan_stats.images_found = IF obj.type = "image" THEN @ + 1 ELSE @,
               !.scan_stats.videos_found = IF obj.type = "video" THEN @ + 1 ELSE @]

\* MediaHandler._add_media_file for the object media_file, stored under id
AddMediaFile(h, f, id, media_file) ==
    LET obj == ExtractMetadata(f, media_file)
        hashed == "file_hash" \in DOMAIN obj.metadata
        file_hash == obj.metadata["file_hash"]
    IN IF hashed /\ file_hash \in DOMAIN h.file_hashes
       THEN [h EXCEPT !.scan_stats.duplicates_found = @ + 1]
       ELSE [h EXCEPT
               !.heap = Update(@, id :> obj),
               !.media_files = Append(@, id),
               !.file_hashes = IF hashed THEN Update(@, file_hash :> id) ELSE @,
               !.scan_stats.images_found = IF obj.type = "image" THEN @ + 1 ELSE @,
               !.scan_stats.videos_found = IF obj.type = "video" THEN @ + 1 ELSE @]

\* MediaHandler._process_single_file
ProcessSingleFile(h, f, p, id) ==
    LET c == CreateMediaFile(h, f, p)
    IN IF c.result # <<>> THEN AddMediaFile(c.h, f, id, c.result[1]) ELSE c.h

\* MediaHandler._process_files_sequential, from candidate i on
RECURSIVE ProcessFilesSequential(_, _, _, _)
ProcessFilesSequential(h, f, files, i) ==
    IF i > Len(files) THEN h
    ELSE ProcessFilesSequential(ProcessSingleFile(h, f, files[i], i), f, files, i + 1)

\* list.sort(key=lambda x: str(x.path)): a stable sort of the ids by path string
RECURSIVE InsertByPath(_, _, _)
InsertByPath(hp, sorted, id) ==
    IF sorted = <<>> THEN <<id>>
    ELSE IF StrLess(PathStr(hp[id].path), PathStr(hp[Head(sorted)].path))
    THEN <<id>> \o sorted
    ELSE <<Head(sorted)>> \o InsertByPath(hp, Tail(sorted), id)

RECURSIVE SortFrom(_, _, _, _)
SortFrom(hp, list, i, sorted) ==
    IF i > Len(list) THEN sorted
    ELSE SortFrom(hp, list, i + 1, InsertByPath(hp, sorted, list[i]))

SortByPath(hp, list) == SortFrom(hp, list, 1, <<>>)

\* Path.rglob('*') / Path.glob('*'): everything below the directory, or its children
Globbed(f, directory, recursive) ==
    {p \in DOMAIN f : /\ IsPrefix(directory, p)
                      /\ IF recursive THEN Len(p) > Len(directory)
                                      ELSE Len(p) = Len(directory) + 1}

\* The order in which the directory walk yields a set of paths is the operating
\* system's; the model takes it ascending or descending by path string.
RECURSIVE InsertPath(_, _)
InsertPath(sorted, p) ==
    IF sorted = <<>> THEN <<p>>
    ELSE IF StrLess(PathStr(p), PathStr(Head(sorted))) THEN <<p>> \o sorted
    ELSE <<Head(sorted)>> \o InsertPath(Tail(sorted), p)

RECURSIVE Ascending(_)
Ascending(S) ==
    IF S = {} THEN <<>>
    ELSE LET p == CHOOSE q \in S : TRUE
         IN InsertPath(Ascending(S \ {p}), p)

Reverse(s) == [i \in 1..Len(s) |-> s[Len(s) + 1 - i]]

Walk(S, order) == IF order = "asc" THEN Ascending(S) ELSE Reverse(Ascending(S))

\* the candidates of scan_directory (line 73), in walk order
Candidates(f, directory, recursive, order) ==
    SelectSeq(Walk(Globbed(f, directory, recursive), order),
              LAMBDA p : IsFile(f, p) /\ IsMediaFile(p))

\* whether scan_directory takes the thread-pool branch (line 83)
UsesPool(max_workers, files) == max_workers > 1 /\ Len(files) > ParallelThreshold

\* scan_directory returning without the sort of line 89
FinishScanUnsorted(h) == h

\* the final sort of scan_directory (line 89)
FinishScan(h) == [h EXCEPT !.media_files = SortByPath(h.heap, @)]

\* scan_directory on an existing directory without the thread pool, whole
ScanSequentialResult(f, files) ==
    LET start == [EmptyHandler EXCEPT !.scan_stats.total_files_found = Len(files)]
    IN IF files = <<>> THEN start
       ELSE FinishScan(ProcessFilesSequential(start, f, files, 1))

\* MediaHandler.find_duplicates: hash -> the records of that hash, for the
\* hashes more than one record of media_files has
FindDuplicates(h, f) ==
    LET md(id) == IF h.heap[id].metadata = EmptyDict
                  THEN ExtractMetadata(f, h.heap[id]).metadata
                  ELSE h.heap[id].metadata
        file_hash(id) == Get(md(id), "file_hash", <<>>)
        hash_groups == [x \in {file_hash(h.media_files[i]) : i \in 1..Len(h.media_files)}
                                \ {<<>>} |->
                           SelectSeq(h.media_files, LAMBDA id : file_hash(id) = x)]
    IN [x \in {y \in DOMAIN hash_groups : Len(hash_groups[y]) > 1} |-> hash_groups[x]]

(***************************************************************************)
(* Templates.  A template is the format string already split into its      *)
(* pieces: [lit |-> text] for literal text and [var |-> name] for a        *)
(* {name} placeholder.  A variable name is <<prefix, key>>: <<"", "year">> *)
(* is year, <<"manual_", "title">> is manual_title.                        *)
(***************************************************************************)

Lit(text) == [lit |-> text]
Var(key) == [var |-> <<"", key>>]
ManualVar(key) == [var |-> <<"manual_", key>>]

\* f"{n}"
Pad2Unpadded(n) == IntStr(n)

\* f"{n:02d}"
Pad2(n) == IF n < 10 THEN <<"0">> \o IntStr(n) ELSE IntStr(n)

\* a combination in which the extracted value wins
GetCombinedMetadataExtractedWins(obj) == Update(obj.manual_metadata, obj.metadata)

\* MediaFile.get_combined_metadata
GetCombinedMetadata(obj) == Update(obj.metadata, obj.manual_metadata)

\* s[:n]
Take(s, n) == SubSeq(s, 1, IF Len(s) < n THEN Len(s) ELSE n)

\* the date the code takes for a record of this type from metadata map md:
\* <<date>> or <<>> for None (lines 258-264 of media_file.py, 380-386 of handler.py)
DateSource(type, md) ==
    IF type = "image" /\ "date_taken" \in DOMAIN md THEN <<md["date_taken"]>>
    ELSE IF type = "video" /\ "date_created" \in DOMAIN md THEN <<md["date_created"]>>
    ELSE IF "created_date" \in DOMAIN md THEN <<md["created_date"]>>
    ELSE <<>>

\* the template_vars of MediaFile.generate_output_filename (lines 231-287)
TemplateVars(obj) ==
    LET combined_metadata == GetCombinedMetadata(obj)
        date_source == DateSource(obj.type, combined_metadata)
        base == (<<"", "original_name">> :> Stem(Name(obj.path)))
             @@ (<<"", "extension">> :> Suffix(Name(obj.path)))
             @@ (<<"", "type">> :> IF obj.type = "image" THEN <<"i", "m", "a", "g", "e">>
                                                         ELSE <<"v", "i", "d", "e", "o">>)
             @@ (<<"", "year">> :> <<>>) @@ (<<"", "month">> :> <<>>)
             @@ (<<"", "day">> :> <<>>) @@ (<<"", "hour">> :> <<>>)
             @@ (<<"", "minute">> :> <<>>) @@ (<<"", "second">> :> <<>>)
             @@ (<<"", "width">> :> <<>>) @@ (<<"", "height">> :> <<>>)
             @@ (<<"", "resolution">> :> <<>>)
             @@ (<<"", "camera_make">> :> <<>>) @@ (<<"", "camera_model">> :> <<>>)
             @@ (<<"", "file_hash">> :> Take(Get(combined_metadata, "file_hash", <<>>), 8))
        manual == [n \in {<<"manual_", k>> : k \in DOMAIN obj.manual_metadata} |->
                      obj.manual_metadata[n[2]]]
        dates == IF date_source = <<>> THEN EmptyDict
                 ELSE LET d == date_source[1]
                      IN (<<"", "year">> :> IntStr(d.year))
                      @@ (<<"", "month">> :> Pad2(d.month))
                      @@ (<<"", "day">> :> Pad2(d.day))
                      @@ (<<"", "hour">> :> Pad2(d.hour))
                      @@ (<<"", "minute">> :> Pad2(d.minute))
                      @@ (<<"", "second">> :> Pad2(d.second))
        dims == [n \in {<<"", k>> : k \in {"width", "height", "resolution"}
                                           \cap DOMAIN combined_metadata} |->
                    combined_metadata[n[2]]]
        camera == IF obj.type = "image"
                  THEN (<<"", "camera_make">> :> Get(combined_metadata, "camera_make", <<>>))
                    @@ (<<"", "camera_model">> :> Get(combined_metadata, "camera_model", <<>>))
                  ELSE EmptyDict
    IN Update(Update(Update(Update(base, manual), dates), dims), camera)

\* a format that renders a placeholder without a value as the empty string
RECURSIVE FormatLenient(_, _, _)
FormatLenient(template, tvars, i) ==
    IF i > Len(template) THEN [ok |-> TRUE, text |-> <<>>]
    ELSE LET piece == template[i]
             rest == FormatLenient(template, tvars, i + 1)
             here == IF "var" \notin DOMAIN piece THEN piece.lit
                     ELSE IF piece.var \in DOMAIN tvars THEN tvars[piece.var]
                     ELSE <<>>
         IN [ok |-> TRUE, text |-> here \o rest.text]

\* str.format(**tvars) from piece i on: [ok |-> TRUE, text] or, at the first
\* placeholder that is no key of tvars, [ok |-> FALSE, key] (the KeyError)
RECURSIVE Format(_, _, _)
Format(template, tvars, i) ==
    IF i > Len(template) THEN [ok |-> TRUE, text |-> <<>>]
    ELSE LET piece == template[i]
         IN IF "var" \in DOMAIN piece /\ piece.var \notin DOMAIN tvars
            THEN [ok |-> FALSE, key |-> piece.var]
            ELSE LET rest == Format(template, tvars, i + 1)
                     here == IF "var" \in DOMAIN piece THEN tvars[piece.var] ELSE piece.lit
                 IN IF rest.ok THEN [ok |-> TRUE, text |-> here \o rest.text] ELSE rest

IsAlnum(c) ==
    \/ \E i \in 1..Len(Digit) : Digit[i] = c
    \/ \E i \in 1..Len(UpperCase) : UpperCase[i] = c
    \/ \E i \in 1..Len(LowerCase) : LowerCase[i] = c

\* line 293: keep alphanumerics and the characters of '._-() '
KeepValid(s) == SelectSeq(s, LAMBDA c : IsAlnum(c) \/ c \in {".", "_", "-", "(", ")", " "})

\* line 294: ' '.join(s.split()), the only whitespace left after line 293 being " "
RECURSIVE JoinSplit(_)
JoinSplit(s) ==
    IF s = <<>> THEN <<>>
    ELSE IF Head(s) = " " THEN JoinSplit(Tail(s))
    ELSE LET spaces == Positions(s, " ")
             n == IF spaces = {} THEN Len(s)
                  ELSE (CHOOSE i \in spaces : \A j \in spaces : i <= j) - 1
             rest == JoinSplit(SubSeq(s, n + 1, Len(s)))
         IN IF rest = <<>> THEN SubSeq(s, 1, n) ELSE SubSeq(s, 1, n) \o <<" ">> \o rest

\* the character filter without the join of line 294
SanitizeWithoutJoin(s) == KeepValid(s)

Sanitize(s) == JoinSplit(KeepValid(s))

\* MediaFile.generate_output_filename: [ok |-> TRUE, text] or the ValueError
GenerateOutputFilename(obj, filename_template) ==
    LET r == Format(filename_template, TemplateVars(obj), 1)
    IN IF r.ok THEN [ok |-> TRUE, text |-> Sanitize(r.text)] ELSE r

\* MediaHandler._get_folder_template_vars
GetFolderTemplateVars(media_file) ==
    LET date_source == DateSource(media_file.type, media_file.metadata)
        unknown == <<"U", "n", "k", "n", "o", "w", "n">>
        base == (<<"", "type">> :> IF media_file.type = "image"
                                   THEN <<"i", "m", "a", "g", "e">>
                                   ELSE <<"v", "i", "d", "e", "o">>)
             @@ (<<"", "year">> :> <<>>) @@ (<<"", "month">> :> <<>>)
             @@ (<<"", "day">> :> <<>>)
             @@ (<<"", "camera_make">> :> <<>>) @@ (<<"", "camera_model">> :> <<>>)
        dates == IF date_source = <<>> THEN EmptyDict
                 ELSE LET d == date_source[1]
                      IN (<<"", "year">> :> IntStr(d.year))
                      @@ (<<"", "month">> :> Pad2(d.month))
                      @@ (<<"", "day">> :> Pad2(d.day))
        camera == IF media_file.type = "image"
                  THEN (<<"", "camera_make">> :> Get(media_file.metadata, "camera_make", unknown))
                    @@ (<<"", "camera_model">> :> Get(media_file.metadata, "camera_model", unknown))
                  ELSE EmptyDict
    IN Update(Update(base, dates), camera)

\* the components of a path string: split at "/", empty and "." pieces dropped
RECURSIVE Components(_)
Components(s) ==
    IF s = <<>> THEN <<>>
    ELSE LET slashes == Positions(s, "/")
             n == IF slashes = {} THEN Len(s)
                  ELSE (CHOOSE i \in slashes : \A j \in slashes : i <= j) - 1
             first == SubSeq(s, 1, n)
             rest == Components(SubSeq(s, n + 2, Len(s)))
         IN IF first = <<>> \/ first = <<".">> THEN rest ELSE <<first>> \o rest

\* PurePosixPath.__truediv__: base / s; an absolute s replaces base
JoinPath(base, s) ==
    IF s # <<>> /\ s[1] = "/" THEN Components(s) ELSE base \o Components(s)

(***************************************************************************)
(* move, copy and organize_files                                           *)
(***************************************************************************)

\* the st_ctime a file written by copy2 gets
CopyTime == [year |-> 2026, month |-> 11, day |-> 1, hour |-> 9, minute |-> 0, second |-> 7]

\* the path and all its ancestors, the root included
Ancestors(p) == {SubSeq(p, 1, k) : k \in 0..Len(p)}

\* Path.mkdir(parents=True, exist_ok=True): fails when the path or one of its
\* ancestors is a regular file, and then creates nothing
Mkdir(f, d) ==
    IF \E a \in Ancestors(d) : IsFile(f, a)
    THEN [ok |-> FALSE, fs |-> f]
    ELSE [ok |-> TRUE, fs |-> Update(f, [a \in Ancestors(d) \ DOMAIN f |-> Dir])]

\* what a failed mkdir raises: FileExistsError when the path itself is a
\* regular file, NotADirectoryError when an ancestor is one
MkdirError(f, d) == IF IsFile(f, d) THEN "FileExistsError" ELSE "NotADirectoryError"

\* a conflict loop that takes stem and suffix from the name tried last
RECURSIVE NextFreeAccumulating(_, _, _, _, _)
NextFreeAccumulating(f, parent, stem, suffix, counter) ==
    LET destination == parent \o <<stem \o <<"_">> \o IntStr(counter) \o suffix>>
    IN IF Exists(f, destination)
       THEN NextFreeAccumulating(f, parent, Stem(Name(destination)), suffix, counter + 1)
       ELSE destination

\* the while loop of move and copy: the first stem_counter.suffix that does not exist
RECURSIVE NextFree(_, _, _, _, _)
NextFree(f, parent, stem, suffix, counter) ==
    LET destination == parent \o <<stem \o <<"_">> \o IntStr(counter) \o suffix>>
    IN IF Exists(f, destination) THEN NextFree(f, parent, stem, suffix, counter + 1)
       ELSE destination

\* move and copy without their conflict handling
ResolveConflictNever(f, destination) == destination

\* "Handle filename conflicts" of move (306-314) and copy (331-339)
ResolveConflict(f, destination) ==
    IF Exists(f, destination)
    THEN NextFree(f, Parent(destination), Stem(Name(destination)),
                  Suffix(Name(destination)), 1)
    ELSE destination

\* shutil.move(src, dst) onto a free name of an existing directory: a rename
ShutilMove(f, src, dst) ==
    IF Exists(f, src)
    THEN [ok |-> TRUE, fs |-> [p \in (DOMAIN f \ {src}) \cup {dst} |->
                                  IF p = dst THEN f[src] ELSE f[p]]]
    ELSE [ok |-> FALSE, fs |-> f]

\* a copy that unlinks its source
ShutilCopy2RemovesSource(f, src, dst) ==
    IF IsFile(f, src) /\ f[src].readable
    THEN [ok |-> TRUE, fs |-> [p \in (DOMAIN f \ {src}) \cup {dst} |->
                                  IF p = dst THEN File(f[src].content, f[src].readable, CopyTime)
                                  ELSE f[p]]]
    ELSE [ok |-> FALSE, fs |-> f]

\* shutil.copy2(src, dst) onto a free name: needs the source's bytes
ShutilCopy2(f, src, dst) ==
    IF IsFile(f, src) /\ f[src].readable
    THEN [ok |-> TRUE, fs |-> Update(f, dst :> File(f[src].content, f[src].readable, CopyTime))]
    ELSE [ok |-> FALSE, fs |-> f]

\* move without the path update of line 321
MoveKeepsPath(f, obj, destination) ==
    LET made == Mkdir(f, Parent(destination))
        dest == ResolveConflict(made.fs, destination)
        moved == ShutilMove(made.fs, obj.path, dest)
    IN IF ~made.ok
       THEN [fs |-> f, obj |-> obj, exc |-> MkdirError(f, Parent(destination)),
             written |-> <<>>]
       ELSE IF ~moved.ok
       THEN [fs |-> made.fs, obj |-> obj, exc |-> "RuntimeError", written |-> <<>>]
       ELSE [fs |-> moved.fs, obj |-> obj, exc |-> "none", written |-> <<dest>>]

\* a move that leaves a file whose destination is its own path where it is
MoveLeavesInPlace(f, obj, destination) ==
    LET made == Mkdir(f, Parent(destination))
        dest == ResolveConflict(made.fs, destination)
        moved == ShutilMove(made.fs, obj.path, dest)
    IN IF ~made.ok
       THEN [fs |-> f, obj |-> obj, exc |-> MkdirError(f, Parent(destination)),
             written |-> <<>>]
       ELSE IF destination = obj.path /\ Exists(f, obj.path)
       THEN [fs |-> f, obj |-> obj, exc |-> "none", written |-> <<destination>>]
       ELSE IF ~moved.ok
       THEN [fs |-> made.fs, obj |-> obj, exc |-> "RuntimeError", written |-> <<>>]
       ELSE [fs |-> moved.fs, obj |-> [obj EXCEPT !.path = dest], exc |-> "none",
             written |-> <<dest>>]

\* MediaFile.move: the file system and the object afterwards, the exception
\* raised ("none" if none) and the destination written (<<>> if none)
Move(f, obj, destination) ==
    LET made == Mkdir(f, Parent(destination))
        dest == ResolveConflict(made.fs, destination)
        moved == ShutilMove(made.fs, obj.path, dest)
    IN IF ~made.ok
       THEN [fs |-> f, obj |-> obj, exc |-> MkdirError(f, Parent(destination)),
             written |-> <<>>]
       ELSE IF ~moved.ok
       THEN [fs |-> made.fs, obj |-> obj, exc |-> "RuntimeError", written |-> <<>>]
       ELSE [fs |-> moved.fs, obj |-> [obj EXCEPT !.path = dest], exc |-> "none",
             written |-> <<dest>>]

\* MediaFile.copy
Copy(f, obj, destination) ==
    LET made == Mkdir(f, Parent(destination))
        dest == ResolveConflict(made.fs, destination)
        copied == ShutilCopy2(made.fs, obj.path, dest)
    IN IF ~made.ok
       THEN [fs |-> f, obj |-> obj, exc |-> MkdirError(f, Parent(destination)),
             written |-> <<>>]
       ELSE IF ~copied.ok
       THEN [fs |-> made.fs, obj |-> obj, exc |-> "RuntimeError", written |-> <<>>]
       ELSE [fs |-> copied.fs, obj |-> obj, exc |-> "none", written |-> <<dest>>]

\* lines 349-355 with the dry_run test ignored
PerformAlways(f, obj, destination, a) ==
    IF a.operation = "move" THEN Move(f, obj, destination)
    ELSE IF a.operation = "copy" THEN Copy(f, obj, destination)
    ELSE [fs |-> f, obj |-> obj, exc |-> "ValueError", written |-> <<>>]

\* lines 349-355 of organize_files: the operation, unless this is a dry run
Perform(f, obj, destination, a) ==
    IF a.dry_run THEN [fs |-> f, obj |-> obj, exc |-> "none", written |-> <<>>]
    ELSE IF a.operation = "move" THEN Move(f, obj, destination)
    ELSE IF a.operation = "copy" THEN Copy(f, obj, destination)
    ELSE [fs |-> f, obj |-> obj, exc |-> "ValueError", written |-> <<>>]

\* One iteration of the loop of organize_files (lines 331-361) for object id.
\* s is [heap, fs, stats, log]; the log holds, per record, what lines 347, 322,
\* 343 and 360 print: the record's path, the destination computed (<<>> if the
\* templates failed), the destination written and the exception caught.
OrganizeOne(s, id, a) ==
    LET media_file == s.heap[id]
        new_filename == GenerateOutputFilename(media_file, a.filename_template)
        extracted == IF media_file.metadata = EmptyDict
                     THEN ExtractMetadata(s.fs, media_file) ELSE media_file
        folder_path == Format(a.folder_structure, GetFolderTemplateVars(extracted), 1)
        destination == JoinPath(JoinPath(a.output_directory, folder_path.text),
                                new_filename.text)
        done == Perform(s.fs, extracted, destination, a)
        entry == [source |-> media_file.path, destination |-> <<>>, written |-> <<>>,
                  error |-> "none"]
    IN IF ~new_filename.ok
       THEN [s EXCEPT !.stats.errors = @ + 1,
                      !.log = Append(@, [entry EXCEPT !.error = "ValueError"])]
       ELSE IF ~folder_path.ok
       THEN [s EXCEPT !.heap[id] = extracted,
                      !.stats.errors = @ + 1,
                      !.log = Append(@, [entry EXCEPT !.error = "KeyError"])]
       ELSE IF done.exc # "none"
       THEN [s EXCEPT !.heap[id] = done.obj,
                      !.fs = done.fs,
                      !.stats.errors = @ + 1,
                      !.log = Append(@, [entry EXCEPT !.destination = <<destination>>,
                                                      !.error = done.exc])]
       ELSE [s EXCEPT !.heap[id] = done.obj,
                      !.fs = done.fs,
                      !.stats.processed = @ + 1,
                      !.log = Append(@, [entry EXCEPT !.destination = <<destination>>,
                                                      !.written = done.written])]

\* the loop of organize_files leaving at the first record that fails
RECURSIVE OrganizeFromUntilError(_, _, _, _)
OrganizeFromUntilError(s, list, i, a) ==
    IF i > Len(list) \/ s.stats.errors > 0 THEN s
    ELSE OrganizeFromUntilError(OrganizeOne(s, list[i], a), list, i + 1, a)

\* the loop of organize_files over media_files, from position i on
RECURSIVE OrganizeFrom(_, _, _, _)
OrganizeFrom(s, list, i, a) ==
    IF i > Len(list) THEN s ELSE OrganizeFrom(OrganizeOne(s, list[i], a), list, i + 1, a)

\* MediaHandler.organize_files with arguments a on handler h and file system f
OrganizeFiles(h, f, a) ==
    OrganizeFrom([heap |-> h.heap, fs |-> f,
                  stats |-> [processed |-> 0, errors |-> 0, skipped |-> 0],
                  log |-> <<>>],
                 h.media_files, 1, a)

(***************************************************************************)
(* The state machine                                                       *)
(***************************************************************************)

\* bounds of the model: the number of calls made on the handler, and the
\* number of calls made on the records of the file specification
MaxCalls == 3
MaxFileCalls == 4

Taken == [year |-> 2024, month |-> 3, day |-> 5, hour |-> 10, minute |-> 20, second |-> 30]

In == <<"i", "n">>
Sub == <<"s">>
Out == <<"o", "u", "t">>
Big == <<"b", "i", "g">>
Jpg == <<".", "j", "p", "g">>
Dng == <<".", "d", "n", "g">>
Mp4 == <<".", "m", "p", "4">>
Txt == <<".", "t", "x", "t">>
Y2024 == <<"2", "0", "2", "4">>
M03 == <<"0", "3">>

\* A small tree: /in/a.jpg and /in/b.jpg hold the same bytes, /in/d.dng is a
\* raw image only the handler's extension list knows, /in/e.jpg cannot be read,
\* /in/n.txt is no media file, /in/s/a.jpg is another image named a.jpg, and
\* /out/2024/03/c.mp4 is left from an earlier organization.
SmallTree ==
    (<<>> :> Dir) @@ (<<In>> :> Dir) @@ (<<In, Sub>> :> Dir)
    @@ (<<In, <<"a">> \o Jpg>> :> File(1, TRUE, Taken))
    @@ (<<In, <<"b">> \o Jpg>> :> File(1, TRUE, Taken))
    @@ (<<In, <<"c">> \o Mp4>> :> File(2, TRUE, Taken))
    @@ (<<In, <<"d">> \o Dng>> :> File(3, TRUE, Taken))
    @@ (<<In, <<"e">> \o Jpg>> :> File(4, FALSE, Taken))
    @@ (<<In, <<"n">> \o Txt>> :> File(5, TRUE, Taken))
    @@ (<<In, Sub, <<"a">> \o Jpg>> :> File(6, TRUE, Taken))
    @@ (<<Out>> :> Dir) @@ (<<Out, Y2024>> :> Dir) @@ (<<Out, Y2024, M03>> :> Dir)
    @@ (<<Out, Y2024, M03, <<"c">> \o Mp4>> :> File(7, TRUE, Taken))

\* A directory of eleven candidates, enough for the thread pool: a.jpg, c.jpg
\* and g.jpg hold the same bytes, b.dng and d.dng fail construction, e.jpg
\* cannot be read.
BigTree ==
    (<<>> :> Dir) @@ (<<Big>> :> Dir)
    @@ (<<Big, <<"a">> \o Jpg>> :> File(1, TRUE, Taken))
    @@ (<<Big, <<"b">> \o Dng>> :> File(2, TRUE, Taken))
    @@ (<<Big, <<"c">> \o Jpg>> :> File(1, TRUE, Taken))
    @@ (<<Big, <<"d">> \o Dng>> :> File(3, TRUE, Taken))
    @@ (<<Big, <<"e">> \o Jpg>> :> File(4, FALSE, Taken))
    @@ (<<Big, <<"f">> \o Mp4>> :> File(5, TRUE, Taken))
    @@ (<<Big, <<"g">> \o Jpg>> :> File(1, TRUE, Taken))
    @@ (<<Big, <<"h">> \o Jpg>> :> File(7, TRUE, Taken))
    @@ (<<Big, <<"i">> \o Jpg>> :> File(8, TRUE, Taken))
    @@ (<<Big, <<"j">> \o Jpg>> :> File(9, TRUE, Taken))
    @@ (<<Big, <<"k">> \o Jpg>> :> File(10, TRUE, Taken))

\* the arguments the calls are made with
ScanDirectories == {<<In>>, <<Out>>, <<In, <<"a">> \o Jpg>>, <<Big>>}
WorkerCounts == {1, 2}
WalkOrders == {"asc", "desc"}
OutputDirectories == {<<Out>>}

\* an output_directory that is a regular file of the tree
FileAsOutput == <<In, <<"n">> \o Txt>>

FilenameTemplates ==
    {<<Var("original_name"), Var("extension")>>,
     <<ManualVar("title"), Var("extension")>>}
FolderStructures == {<<Var("year"), Lit(<<"/">>), Var("month")>>}

\* "{year}/{hour}": hour is a filename variable and no folder variable
HourFolder == <<Var("year"), Lit(<<"/">>), Var("hour")>>
Operations == {"copy", "move"}
ManualKeys == {"title"}
ManualValues == {<<"x">>}

\* no MediaFile method has returned anything
NoReturn == [op |-> "none"]

NoCall ==
    [called |-> FALSE,
     args |-> [output_directory |-> <<>>, filename_template |-> <<>>,
               folder_structure |-> <<>>, operation |-> "copy", dry_run |-> TRUE],
     stats |-> [processed |-> 0, errors |-> 0, skipped |-> 0],
     log |-> <<>>]

\* MediaHandler.__init__, on a given tree
InitOn(tree) ==
    /\ fs = tree
    /\ heap = EmptyDict
    /\ media_files = <<>>
    /\ file_hashes = EmptyDict
    /\ scan_stats = ZeroStats
    /\ raised = "none"
    /\ pc = "idle"
    /\ tasks = <<>>
    /\ started = 0
    /\ running = EmptyDict
    /\ done_q = <<>>
    /\ collected = 0
    /\ workers = 0
    /\ org = NoCall
    /\ ret = NoReturn
    /\ calls = 0

Init == InitOn(SmallTree)

InitPar == InitOn(BigTree)

SetHandler(h) ==
    /\ heap' = h.heap
    /\ media_files' = h.media_files
    /\ file_hashes' = h.file_hashes
    /\ scan_stats' = h.scan_stats

PoolIdle == UNCHANGED <<tasks, started, running, done_q, collected, workers>>

\* scan_directory, lines 51-56: the two raises; nothing has been reset yet
ScanDirectoryRaises(directory) ==
    /\ pc = "idle"
    /\ \/ ~Exists(fs, directory) /\ raised' = "FileNotFoundError"
       \/ Exists(fs, directory) /\ ~IsDir(fs, directory) /\ raised' = "ValueError"
    /\ org' = NoCall
    /\ UNCHANGED <<fs, heap, media_files, file_hashes, scan_stats, pc>>
    /\ PoolIdle

\* scan_directory without the thread pool, from the call to the return
ScanDirectorySequential(directory, recursive, order, max_workers) ==
    LET files == Candidates(fs, directory, recursive, order)
    IN /\ pc = "idle"
       /\ IsDir(fs, directory)
       /\ ~UsesPool(max_workers, files)
       /\ SetHandler(ScanSequentialResult(fs, files))
       /\ raised' = "none"
       /\ org' = NoCall
       /\ UNCHANGED <<fs, pc>>
       /\ PoolIdle

\* scan_directory with the thread pool, up to the submission of all tasks (line 102)
ScanDirectoryParallel(directory, recursive, order, max_workers) ==
    LET files == Candidates(fs, directory, recursive, order)
    IN /\ pc = "idle"
       /\ IsDir(fs, directory)
       /\ UsesPool(max_workers, files)
       /\ SetHandler([EmptyHandler EXCEPT !.scan_stats.total_files_found = Len(files)])
       /\ pc' = "parallel"
       /\ tasks' = files
       /\ started' = 0
       /\ running' = EmptyDict
       /\ done_q' = <<>>
       /\ collected' = 0
       /\ workers' = max_workers
       /\ raised' = "none"
       /\ org' = NoCall
       /\ UNCHANGED <<fs>>

\* a pool thread takes the next task from the executor's queue
WorkerStart ==
    /\ pc = "parallel"
    /\ started < Len(tasks)
    /\ Cardinality(DOMAIN running) < workers
    /\ started' = started + 1
    /\ running' = Update(running, (started + 1) :> [at |-> "create", key |-> "", loaded |-> 0])
    /\ UNCHANGED <<fs, heap, media_files, file_hashes, scan_stats, raised, pc, tasks,
                   done_q, collected, workers, org>>

\* the thread of task t runs _create_media_file: it returns the object, or
\* reaches the counter update of line 133 or 137 and loads the counter
WorkerCreate(t) ==
    /\ pc = "parallel"
    /\ t \in DOMAIN running
    /\ running[t].at = "create"
    /\ LET outcome == CreateOutcome(fs, tasks[t])
       IN IF outcome = "created"
          THEN /\ done_q' = Append(done_q, [task |-> t,
                               result |-> <<NewMediaFile(tasks[t], HandlerDetectFileType(tasks[t]))>>])
               /\ running' = [u \in DOMAIN running \ {t} |-> running[u]]
          ELSE /\ running' = [running EXCEPT ![t] =
                                 [at |-> "store", key |-> outcome, loaded |-> scan_stats[outcome]]]
               /\ done_q' = done_q
    /\ UNCHANGED <<fs, heap, media_files, file_hashes, scan_stats, raised, pc, tasks,
                   started, collected, workers, org>>

\* the thread of task t stores the incremented counter and returns None
WorkerStore(t) ==
    /\ pc = "parallel"
    /\ t \in DOMAIN running
    /\ running[t].at = "store"
    /\ scan_stats' = [scan_stats EXCEPT ![running[t].key] = running[t].loaded + 1]
    /\ done_q' = Append(done_q, [task |-> t, result |-> <<>>])
    /\ running' = [u \in DOMAIN running \ {t} |-> running[u]]
    /\ UNCHANGED <<fs, heap, media_files, file_hashes, raised, pc, tasks, started,
                   collected, workers, org>>

\* one iteration of the as_completed loop (lines 106-111) in the calling thread.
\* future.result() cannot raise, _create_media_file catching every Exception,
\* and neither can _add_media_file: lines 112-114 are never reached.
Collect ==
    /\ pc = "parallel"
    /\ done_q # <<>>
    /\ LET future == Head(done_q)
       IN SetHandler(IF future.result # <<>>
                     THEN AddMediaFile(Handler, fs, future.task, future.result[1])
                     ELSE Handler)
    /\ done_q' = Tail(done_q)
    /\ collected' = collected + 1
    /\ UNCHANGED <<fs, raised, pc, tasks, started, running, workers, org>>

\* the pool is drained: the sort of line 89 and the return
ScanParallelReturn ==
    /\ pc = "parallel"
    /\ collected = Len(tasks)
    /\ SetHandler(FinishScan(Handler))
    /\ pc' = "idle"
    /\ raised' = "none"
    /\ tasks' = <<>>
    /\ started' = 0
    /\ running' = EmptyDict
    /\ done_q' = <<>>
    /\ collected' = 0
    /\ workers' = 0
    /\ UNCHANGED <<fs, org>>

\* MediaHandler.clear
Clear ==
    /\ pc = "idle"
    /\ SetHandler(EmptyHandler)
    /\ raised' = "none"
    /\ org' = NoCall
    /\ UNCHANGED <<fs, pc>>
    /\ PoolIdle

\* MediaFile.set_manual_metadata on the i-th record of the catalog
SetManualMetadata(i, key, value) ==
    /\ pc = "idle"
    /\ i \in 1..Len(media_files)
    /\ heap' = [heap EXCEPT ![media_files[i]].manual_metadata = Update(@, key :> value)]
    /\ raised' = "none"
    /\ org' = NoCall
    /\ UNCHANGED <<fs, media_files, file_hashes, scan_stats, pc>>
    /\ PoolIdle

\* MediaHandler.organize_files, from the call to the return
OrganizeFilesCall(output_directory, filename_template, folder_structure, operation, dry_run) ==
    LET a == [output_directory |-> output_directory, filename_template |-> filename_template,
              folder_structure |-> folder_structure, operation |-> operation,
              dry_run |-> dry_run]
        r == OrganizeFiles(Handler, fs, a)
    IN /\ pc = "idle"
       /\ fs' = r.fs
       /\ heap' = r.heap
       /\ org' = [called |-> TRUE, args |-> a, stats |-> r.stats, log |-> r.log]
       /\ raised' = "none"
       /\ UNCHANGED <<media_files, file_hashes, scan_stats, pc>>
       /\ PoolIdle

\* the arguments organize_files is called with: every combination with the
\* folder structure that renders, a move with the one that does not, and a
\* copy into an output_directory that is a regular file
OrganizeArgs ==
    [output_directory : OutputDirectories, filename_template : FilenameTemplates,
     folder_structure : FolderStructures, operation : Operations, dry_run : BOOLEAN]
    \cup {[output_directory |-> <<Out>>,
           filename_template |-> <<Var("original_name"), Var("extension")>>,
           folder_structure |-> HourFolder, operation |-> "move", dry_run |-> FALSE],
          [output_directory |-> FileAsOutput,
           filename_template |-> <<Var("original_name"), Var("extension")>>,
           folder_structure |-> <<Var("year"), Lit(<<"/">>), Var("month")>>,
           operation |-> "copy", dry_run |-> FALSE]}

\* a call made while fewer than MaxCalls calls have been made
Call(A) == calls < MaxCalls /\ A /\ calls' = calls + 1 /\ ret' = ret

\* a step that is not counted
Uncounted(A) == A /\ calls' = calls /\ ret' = ret

Next ==
    \/ \E d \in ScanDirectories : Call(ScanDirectoryRaises(d))
    \/ \E d \in ScanDirectories, r \in BOOLEAN, o \in WalkOrders :
          Call(ScanDirectorySequential(d, r, o, DefaultWorkers))
    \/ Call(Clear)
    \/ \E i \in 1..Len(media_files), k \in ManualKeys, v \in ManualValues :
          Call(SetManualMetadata(i, k, v))
    \/ \E a \in OrganizeArgs :
          Call(OrganizeFilesCall(a.output_directory, a.filename_template,
                                 a.folder_structure, a.operation, a.dry_run))

NextPar ==
    \/ \E d \in ScanDirectories : Uncounted(ScanDirectoryRaises(d))
    \/ \E d \in ScanDirectories, r \in BOOLEAN, o \in WalkOrders, w \in WorkerCounts :
          \/ Uncounted(ScanDirectorySequential(d, r, o, w))
          \/ Uncounted(ScanDirectoryParallel(d, r, o, w))
    \/ Uncounted(WorkerStart)
    \/ \E t \in DOMAIN running : Uncounted(WorkerCreate(t)) \/ Uncounted(WorkerStore(t))
    \/ Uncounted(Collect)
    \/ Uncounted(ScanParallelReturn)
    \/ Uncounted(Clear)

Spec == Init /\ [][Next]_vars

SpecPar == InitPar /\ [][NextPar]_vars

(***************************************************************************)
(* MediaFile used on its own: records are constructed, given metadata and  *)
(* asked for their combined metadata and output filenames, without a       *)
(* handler.  The records live in heap, one per path of RecordPaths.        *)
(***************************************************************************)

Stamped == [year |-> 2023, month |-> 11, day |-> 9, hour |-> 8, minute |-> 7, second |-> 6]

P == <<"p">>
Img01 == <<"I", "M", "G", "_", "0", "1">> \o Jpg

\* /p/IMG_01.jpg and /p/v.mp4 are readable, /p/u.jpg cannot be read,
\* /p/d.jpg is a directory, /p/n.txt is no media file; /p/x.jpg does not exist
FileTree ==
    (<<>> :> Dir) @@ (<<P>> :> Dir)
    @@ (<<P, Img01>> :> File(1, TRUE, Stamped))
    @@ (<<P, <<"v">> \o Mp4>> :> File(2, TRUE, Stamped))
    @@ (<<P, <<"u">> \o Jpg>> :> File(3, FALSE, Stamped))
    @@ (<<P, <<"d">> \o Jpg>> :> Dir)
    @@ (<<P, <<"n">> \o Txt>> :> File(4, TRUE, Stamped))

RecordPaths ==
    << <<P, Img01>>, <<P, <<"v">> \o Mp4>>, <<P, <<"u">> \o Jpg>>,
       <<P, <<"d">> \o Jpg>>, <<P, <<"n">> \o Txt>>, <<P, <<"x">> \o Jpg>> >>

\* the type argument of the constructor; "" has the type detected
TypeArguments == {"image", "video", ""}

\* the metadata argument of the constructor
MetadataArguments == {EmptyDict, [date_taken |-> Taken], [date_created |-> Taken]}

\* the metadata_dict argument of update_manual_metadata
ManualUpdates ==
    {[title |-> <<"x">>],
     [filename |-> <<"m">>, camera_make |-> <<" ", "/", "\t", " ", "C">>]}

\* "{year}-{month}-{day}_{original_name}{extension}"
DatedTemplate ==
    <<Var("year"), Lit(<<"-">>), Var("month"), Lit(<<"-">>), Var("day"), Lit(<<"_">>),
      Var("original_name"), Var("extension")>>

\* "{manual_title} {camera_make}{extension}"
TitledTemplate ==
    <<ManualVar("title"), Lit(<<" ">>), Var("camera_make"), Var("extension")>>

RecordTemplates == {DatedTemplate, TitledTemplate}

InitFile == InitOn(FileTree)

HandlerIdle == UNCHANGED <<media_files, file_hashes, scan_stats, pc, org>> /\ PoolIdle

\* MediaFile(path, type, metadata): the dataclass constructor and __post_init__
MediaFileCall(id, type, metadata) ==
    LET path == RecordPaths[id]
        outcome == PostInit(fs, path, type)
        detected == IF type \in {"image", "video"} THEN type ELSE FileDetectFileType(path)
    IN /\ raised' = IF outcome = "ok" THEN "none" ELSE outcome
       /\ heap' = IF outcome = "ok"
                  THEN Update(heap, id :> [NewMediaFile(path, detected)
                                              EXCEPT !.metadata = metadata])
                  ELSE heap
       /\ ret' = [op |-> "MediaFile", id |-> id]
       /\ UNCHANGED fs
       /\ HandlerIdle

\* MediaFile.extract_metadata on record id
ExtractMetadataCall(id) ==
    /\ id \in DOMAIN heap
    /\ heap' = [heap EXCEPT ![id] = ExtractMetadata(fs, @)]
    /\ raised' = "none"
    /\ ret' = [op |-> "extract_metadata", id |-> id]
    /\ UNCHANGED fs
    /\ HandlerIdle

\* MediaFile.update_manual_metadata on record id
UpdateManualMetadata(id, metadata_dict) ==
    /\ id \in DOMAIN heap
    /\ heap' = [heap EXCEPT ![id].manual_metadata = Update(@, metadata_dict)]
    /\ raised' = "none"
    /\ ret' = [op |-> "update_manual_metadata", id |-> id]
    /\ UNCHANGED fs
    /\ HandlerIdle

\* MediaFile.get_combined_metadata on record id
GetCombinedMetadataCall(id) ==
    /\ id \in DOMAIN heap
    /\ ret' = [op |-> "get_combined_metadata", id |-> id,
                value |-> GetCombinedMetadata(heap[id])]
    /\ raised' = "none"
    /\ UNCHANGED <<fs, heap>>
    /\ HandlerIdle

\* MediaFile.generate_output_filename on record id
GenerateOutputFilenameCall(id, filename_template) ==
    LET r == GenerateOutputFilename(heap[id], filename_template)
    IN /\ id \in DOMAIN heap
       /\ ret' = [op |-> "generate_output_filename", id |-> id,
                   filename_template |-> filename_template, value |-> r]
       /\ raised' = IF r.ok THEN "none" ELSE "ValueError"
       /\ UNCHANGED <<fs, heap>>
       /\ HandlerIdle

\* a call of the constructor or of a method of a record
Returning(A) == calls < MaxFileCalls /\ A /\ calls' = calls + 1

NextFile ==
    \/ \E id \in 1..Len(RecordPaths), type \in TypeArguments, md \in MetadataArguments :
          Returning(MediaFileCall(id, type, md))
    \/ \E id \in 1..Len(RecordPaths) : Returning(ExtractMetadataCall(id))
    \/ \E id \in 1..Len(RecordPaths), md \in ManualUpdates :
          Returning(UpdateManualMetadata(id, md))
    \/ \E id \in 1..Len(RecordPaths) : Returning(GetCombinedMetadataCall(id))
    \/ \E id \in 1..Len(RecordPaths), t \in RecordTemplates :
          Returning(GenerateOutputFilenameCall(id, t))

SpecFile == InitFile /\ [][NextFile]_vars

(***************************************************************************)
(* Properties                                                              *)
(***************************************************************************)

\* the file_hash of the record at position i of media_files, <<>> if it has none
HashAt(i) == Get(heap[media_files[i]].metadata, "file_hash", <<>>)

\* C1: in every state reached by scan_directory, clear and organize_files calls
\* (manual metadata edits included), no two records of media_files have the
\* same file_hash, and find_duplicates() returns no group.
C1_NoSharedHash ==
    /\ \A i, j \in 1..Len(media_files) :
          (i # j /\ HashAt(i) # <<>>) => HashAt(i) # HashAt(j)
    /\ FindDuplicates(Handler, fs) = EmptyDict

\* a scan dropped a duplicate, and the catalog of several hashed records has
\* since been organized on disk
C1_Witness ==
    /\ scan_stats.duplicates_found > 0
    /\ Cardinality({i \in 1..Len(media_files) : HashAt(i) # <<>>}) >= 2
    /\ org.called /\ ~org.args.dry_run

\* the sum of the values of the function g
RECURSIVE SumOf(_)
SumOf(g) ==
    IF DOMAIN g = {} THEN 0
    ELSE LET x == CHOOSE y \in DOMAIN g : TRUE
         IN g[x] + SumOf([y \in DOMAIN g \ {x} |-> g[y]])

\* the candidates of files that a scan accepts on file system f: a record can
\* be constructed and the bytes can be hashed
Accepted(f, files) ==
    {i \in 1..Len(files) : CreateOutcome(f, files[i]) = "created" /\ f[files[i]].readable}

\* For handler h, left by a scan of the candidates files on f: of every group
\* of accepted candidates with one content hash exactly one is a record of the
\* catalog, and duplicates_found is the sum of (group size - 1) over the groups.
OnePerGroup(f, files, h) ==
    LET hash_of(i) == Md5(f[files[i]].content)
        hashes == {hash_of(i) : i \in Accepted(f, files)}
        group(x) == {files[i] : i \in {j \in Accepted(f, files) : hash_of(j) = x}}
        kept(x) == {k \in 1..Len(h.media_files) :
                       Get(h.heap[h.media_files[k]].metadata, "file_hash", <<>>) = x}
    IN /\ \A x \in hashes :
            /\ Cardinality(kept(x)) = 1
            /\ \A k \in kept(x) : h.heap[h.media_files[k]].path \in group(x)
       /\ h.scan_stats.duplicates_found =
              SumOf([x \in hashes |-> Cardinality(group(x)) - 1])

\* C2: when a scan returns, sequential or parallel, each group of m accepted
\* candidates with identical content hash has exactly one record in the
\* catalog, duplicates_found is the sum of m-1 over the groups, and no step
\* of the scan changes the file system: every candidate is still on disk.
C2_OneRecordPerContent ==
    [][/\ \A d \in ScanDirectories, r \in BOOLEAN, o \in WalkOrders, w \in WorkerCounts :
            ScanDirectorySequential(d, r, o, w) =>
                /\ OnePerGroup(fs, Candidates(fs, d, r, o), Handler')
                /\ fs' = fs
       /\ ScanParallelReturn =>
                /\ OnePerGroup(fs, tasks, Handler')
                /\ \A i \in 1..Len(tasks) : IsFile(fs', tasks[i])
       /\ (pc = "parallel" \/ pc' = "parallel") => fs' = fs]_vars

\* a parallel scan has handled all its candidates, among them three files of
\* one content, of which one is in the catalog
C2_Witness ==
    /\ pc = "parallel"
    /\ collected = Len(tasks)
    /\ scan_stats.duplicates_found = 2
    /\ Cardinality({i \in 1..Len(media_files) : HashAt(i) = Md5(1)}) = 1

\* For handler h, left by a scan of the candidates files on f: every candidate
\* whose record cannot be constructed is counted in errors and is no record of
\* the catalog, and every other supported candidate was processed: it is a
\* record, or a record of the same content is.
FailuresIsolated(f, files, h) ==
    LET failing == {i \in 1..Len(files) : CreateOutcome(f, files[i]) = "errors"}
        created == {i \in 1..Len(files) : CreateOutcome(f, files[i]) = "created"}
        paths == {h.heap[h.media_files[k]].path : k \in 1..Len(h.media_files)}
        hashes == {Get(h.heap[h.media_files[k]].metadata, "file_hash", <<>>) :
                      k \in 1..Len(h.media_files)}
    IN /\ h.scan_stats.errors = Cardinality(failing)
       /\ \A i \in failing : files[i] \notin paths
       /\ \A i \in created :
             \/ files[i] \in paths
             \/ f[files[i]].readable /\ Md5(f[files[i]].content) \in hashes

\* C3: a scan, sequential or parallel, returns without raising, with every
\* candidate whose processing failed counted in scan_stats['errors'] and kept
\* out of the catalog, and every other candidate processed.
C3_FailuresCounted ==
    [][/\ \A d \in ScanDirectories, r \in BOOLEAN, o \in WalkOrders, w \in WorkerCounts :
            ScanDirectorySequential(d, r, o, w) =>
                FailuresIsolated(fs, Candidates(fs, d, r, o), Handler') /\ raised' = "none"
       /\ ScanParallelReturn =>
                FailuresIsolated(fs, tasks, Handler') /\ raised' = "none"]_vars

\* the records of the last organize_files call that failed, by position
Failed == {i \in 1..Len(org.log) : org.log[i].error # "none"}

\* C4: organize_files over the N records of the catalog, K of which fail in
\* the templates or in move/copy, returns processed = N - K and errors = K
\* without raising, and has attempted every record, those after a failed one
\* included: each record that did not fail has its file at the destination.
C4_BatchTally ==
    org.called =>
        /\ raised = "none"
        /\ Len(org.log) = Len(media_files)
        /\ org.stats.errors = Cardinality(Failed)
        /\ org.stats.processed = Len(media_files) - Cardinality(Failed)
        /\ \A i \in 1..Len(org.log) \ Failed :
              ~org.args.dry_run =>
                  /\ org.log[i].written # <<>>
                  /\ IsFile(fs, org.log[i].written[1])

\* a run in which a copy failed on the file system, a later record was still
\* written, and the tally shows both
C4_Witness ==
    /\ org.called /\ ~org.args.dry_run
    /\ \E i, j \in 1..Len(org.log) :
          /\ i < j
          /\ org.log[i].error = "RuntimeError"
          /\ org.log[j].error = "none"
    /\ org.stats.errors >= 1
    /\ org.stats.processed >= 2

\* the step is a call of organize_files with arguments a
OrganizeStep(a) ==
    /\ org'.called
    /\ org'.args = a
    /\ OrganizeFilesCall(a.output_directory, a.filename_template, a.folder_structure,
                         a.operation, a.dry_run)

\* the states [heap, fs, stats, log] the loop of organize_files passes through
\* from state s on, one per record from position i on, s first
RECURSIVE LoopStates(_, _, _, _)
LoopStates(s, list, i, a) ==
    IF i > Len(list) THEN <<s>>
    ELSE <<s>> \o LoopStates(OrganizeOne(s, list[i], a), list, i + 1, a)

\* organize_files with arguments a, called in the current state: the state
\* before the loop and the state after each record
OrganizeStates(a) ==
    LoopStates([heap |-> heap, fs |-> fs,
                stats |-> [processed |-> 0, errors |-> 0, skipped |-> 0],
                log |-> <<>>],
               media_files, 1, a)

\* name_1.ext beside name.ext
FirstAlternative(d) == Parent(d) \o <<Stem(Name(d)) \o <<"_", "1">> \o Suffix(Name(d))>>

\* The move or copy of the i-th record of a call with arguments a, between
\* the loop states before and after, overwrites nothing: every file there was
\* before it is still there with its bytes, but for the source of a move
\* that succeeded.
WritesNoExistingFile(a, before, after, i) ==
    LET e == after.log[i]
    IN \A p \in DOMAIN before.fs :
          \/ a.operation = "move" /\ e.error = "none" /\ p = e.source
          \/ p \in DOMAIN after.fs /\ after.fs[p] = before.fs[p]

\* Records i < j of the call are the first two that render to destination d,
\* and neither d nor name_1.ext exists or is rendered to by another record.
FirstTwoAt(log, i, j, d) ==
    /\ i < j
    /\ log[i].destination = <<d>> /\ log[i].error = "none"
    /\ log[j].destination = <<d>> /\ log[j].error = "none"
    /\ \A k \in 1..(j - 1) :
          k # i => log[k].destination \notin {<<d>>, <<FirstAlternative(d)>>}
    /\ ~Exists(fs, d)
    /\ ~Exists(fs, FirstAlternative(d))

\* C5: no move or copy of organize_files overwrites an existing file, and of
\* two different records that render to the same free destination the first
\* is written as name.ext and the second as name_1.ext, both present
\* afterwards with the bytes of their sources.
C5_NeverOverwrites ==
    [][\A a \in OrganizeArgs : (OrganizeStep(a) /\ ~a.dry_run) =>
          LET states == OrganizeStates(a)
              log == states[Len(media_files) + 1].log
          IN /\ \A i \in 1..Len(media_files) :
                   WritesNoExistingFile(a, states[i], states[i + 1], i)
             /\ fs' = states[Len(media_files) + 1].fs
             /\ org'.log = log
             /\ \A i, j \in 1..Len(log) :
                   \A d \in {log[i].destination[k] : k \in 1..Len(log[i].destination)} :
                      FirstTwoAt(log, i, j, d) =>
                         /\ log[i].written = <<d>>
                         /\ log[j].written = <<FirstAlternative(d)>>
                         /\ IsFile(fs', d)
                         /\ IsFile(fs', FirstAlternative(d))
                         /\ fs'[d].content = fs[log[i].source].content
                         /\ fs'[FirstAlternative(d)].content = fs[log[j].source].content
      ]_vars

\* two records were written to one rendered destination, the second under
\* the name with _1, and a third avoided a file that was there before the run
C5_Witness ==
    /\ org.called /\ ~org.args.dry_run
    /\ \E i, j \in 1..Len(org.log) :
          /\ i < j
          /\ org.log[i].destination = org.log[j].destination
          /\ org.log[i].written = org.log[i].destination
          /\ org.log[i].written # <<>>
          /\ org.log[j].written = <<FirstAlternative(org.log[i].written[1])>>
          /\ IsFile(fs, org.log[i].written[1])
          /\ IsFile(fs, org.log[j].written[1])
    /\ \E k \in 1..Len(org.log) :
          /\ org.log[k].written # <<>>
          /\ org.log[k].written # org.log[k].destination
          /\ \A i \in 1..Len(org.log) :
                i # k => org.log[i].destination # org.log[k].destination

\* C6: organize_files with dry_run=True, for move and for copy, leaves the
\* file system and every record's path unchanged, and reports for each record
\* the destination that a run without dry_run from the same state computes.
C6_DryRunChangesNothing ==
    [][\A a \in OrganizeArgs : (OrganizeStep(a) /\ a.dry_run) =>
          LET real == OrganizeFiles(Handler, fs, [a EXCEPT !.dry_run = FALSE])
          IN /\ fs' = fs
             /\ DOMAIN heap' = DOMAIN heap
             /\ \A id \in DOMAIN heap : heap'[id].path = heap[id].path
             /\ Len(org'.log) = Len(real.log)
             /\ \A i \in 1..Len(real.log) :
                   /\ org'.log[i].source = real.log[i].source
                   /\ org'.log[i].destination = real.log[i].destination
      ]_vars

\* a dry run of a move reported destinations, the same one for two records
C6_Witness ==
    /\ org.called /\ org.args.dry_run /\ org.args.operation = "move"
    /\ \E i, j \in 1..Len(org.log) :
          /\ i < j
          /\ org.log[i].destination # <<>>
          /\ org.log[i].destination = org.log[j].destination
    /\ org.stats.processed >= 2

\* written is destination, or destination with _k before the suffix
IsResolutionOf(written, destination) ==
    \/ written = destination
    \/ /\ Parent(written) = Parent(destination)
       /\ Suffix(Name(written)) = Suffix(Name(destination))
       /\ \E k \in 1..(Cardinality(DOMAIN fs) + 1) :
             Stem(Name(written)) = Stem(Name(destination)) \o <<"_">> \o IntStr(k)

\* The effect of the i-th record's move or copy in a call with arguments a,
\* between the loop states before and after, if it succeeded: the file is at the conflict-resolved destination, which
\* was free; a move has taken it from the old path and set the record's path
\* to the new one, a copy has left the source and the record's path alone.
MoveCopyEffect(a, before, after, i) ==
    LET id == media_files[i]
        e == after.log[i]
        old == before.heap[id].path
        new == e.written[1]
    IN e.error = "none" =>
          /\ e.written # <<>>
          /\ IsResolutionOf(new, e.destination[1])
          /\ ~Exists(before.fs, new)
          /\ IsFile(after.fs, new)
          /\ after.fs[new].content = before.fs[old].content
          /\ IF a.operation = "move"
             THEN after.heap[id].path = new /\ ~Exists(after.fs, old)
             ELSE after.heap[id].path = old /\ IsFile(after.fs, old)
                  /\ after.fs[old] = before.fs[old]

\* C7: after a successful move the record's path is the conflict-resolved
\* destination, the file is there and no longer at the old path; after a
\* successful copy the record's path is unchanged, the source is still
\* there and a file is at the destination.
C7_MoveAndCopyEffect ==
    [][\A a \in OrganizeArgs : (OrganizeStep(a) /\ ~a.dry_run) =>
          LET states == OrganizeStates(a)
          IN /\ \A i \in 1..Len(media_files) :
                   MoveCopyEffect(a, states[i], states[i + 1], i)
             /\ heap' = states[Len(media_files) + 1].heap
             /\ fs' = states[Len(media_files) + 1].fs
      ]_vars

\* a move went to a conflict-resolved name and the record points there
C7_Witness ==
    /\ org.called /\ ~org.args.dry_run /\ org.args.operation = "move"
    /\ \E i \in 1..Len(org.log) :
          /\ org.log[i].written # <<>>
          /\ org.log[i].written # org.log[i].destination
          /\ heap[media_files[i]].path = org.log[i].written[1]
          /\ IsFile(fs, org.log[i].written[1])
          /\ ~Exists(fs, org.log[i].source)

\* the paths of the records of handler h, in list order
CatalogPaths(h) == [k \in 1..Len(h.media_files) |-> h.heap[h.media_files[k]].path]

\* C8: the catalog a parallel scan returns does not depend on the order in
\* which the worker tasks complete: it has the record paths, in the order,
\* that the scan has when the tasks complete in the order of submission,
\* which is what handling the candidates one after the other gives.
C8_CompletionOrderIrrelevant ==
    [][ScanParallelReturn =>
          CatalogPaths(Handler') = CatalogPaths(ScanSequentialResult(fs, tasks))]_vars

\* C9: during a parallel scan the record list, the hash index and the scan
\* statistics are written only at the insertion point in the collecting
\* loop, and no update is lost: a counter a thread increments is one more
\* than it was before the thread's write.
C9_SingleWriter ==
    [][(pc = "parallel" /\ pc' = "parallel") =>
          /\ <<heap, media_files, file_hashes, scan_stats>>' #
                 <<heap, media_files, file_hashes, scan_stats>> => Collect
          /\ \A t \in DOMAIN running :
                WorkerStore(t) =>
                   scan_stats'[running[t].key] = scan_stats[running[t].key] + 1]_vars

\* media_files of handler h is in non-decreasing order of str(path)
SortedByPathStr(h) ==
    \A i, j \in 1..Len(h.media_files) :
        i < j => ~StrLess(PathStr(h.heap[h.media_files[j]].path),
                          PathStr(h.heap[h.media_files[i]].path))

\* C10: when scan_directory returns normally, without or with the thread
\* pool, media_files is in non-decreasing order of the string form of the
\* records' paths.
C10_SortedOnReturn ==
    [][/\ \A d \in ScanDirectories, r \in BOOLEAN, o \in WalkOrders, w \in WorkerCounts :
            ScanDirectorySequential(d, r, o, w) => SortedByPathStr(Handler')
       /\ ScanParallelReturn => SortedByPathStr(Handler')]_vars

\* a scan of the eleven candidates has returned; of the three files of one
\* content the one handled first was g.jpg, the last in path order, and its
\* record stands between those of f.mp4 and h.jpg
C10_Witness ==
    /\ pc = "idle"
    /\ scan_stats.total_files_found = 11
    /\ Len(media_files) = 7
    /\ heap[media_files[2]].path = <<Big, <<"f">> \o Mp4>>
    /\ heap[media_files[3]].path = <<Big, <<"g">> \o Jpg>>
    /\ heap[media_files[4]].path = <<Big, <<"h">> \o Jpg>>

\* Handler h holds what one scan of the candidates files on f produces and
\* nothing else: its records are candidates, each once; the hash index has
\* the hashes of its records; the statistics count the candidates of this
\* scan; and a candidate is dropped as a duplicate only for a record of this
\* scan (one record per content among the candidates).
OnlyThisScan(f, files, h) ==
    LET paths == CatalogPaths(h)
        candidates == {files[i] : i \in 1..Len(files)}
    IN /\ \A k \in 1..Len(paths) : paths[k] \in candidates
       /\ \A k, l \in 1..Len(paths) : k # l => paths[k] # paths[l]
       /\ DOMAIN h.heap = {h.media_files[k] : k \in 1..Len(h.media_files)}
       /\ DOMAIN h.file_hashes =
              {Get(h.heap[h.media_files[k]].metadata, "file_hash", <<>>) :
                  k \in 1..Len(h.media_files)} \ {<<>>}
       /\ h.scan_stats.total_files_found = Len(files)
       /\ h.scan_stats.images_found + h.scan_stats.videos_found = Len(h.media_files)
       /\ Len(h.media_files) + h.scan_stats.duplicates_found
             + h.scan_stats.errors + h.scan_stats.skipped_files = Len(files)
       /\ OnePerGroup(f, files, h)

\* The step is a scan of directory d that passes the checks, sequential,
\* with the given recursive flag and walk order.  Such a step ends without
\* an exception and without an organize_files report, and with
\* total_files_found the number of its candidates (line 74), and it is no
\* set_manual_metadata call; these are tested before the scan itself is
\* computed.
ScanStep(d, r, o) ==
    /\ ~org'.called
    /\ raised' = "none"
    /\ \A i \in 1..Len(media_files), k \in ManualKeys, v \in ManualValues :
          ~SetManualMetadata(i, k, v)
    /\ IsDir(fs, d)
    /\ scan_stats'.total_files_found =
          Cardinality({p \in Globbed(fs, d, r) : IsFile(fs, p) /\ IsMediaFile(p)})
    /\ ScanDirectorySequential(d, r, o, DefaultWorkers)

\* C11: clear leaves no record, no hash and zeroed statistics; a scan that
\* passes the directory checks leaves only records, hashes and statistics of
\* that scan, and drops no file as a duplicate of a file seen in an earlier
\* scan only.
C11_RescanDiscardsAll ==
    [][/\ Clear => Handler' = [heap |-> EmptyDict, media_files |-> <<>>,
                                file_hashes |-> EmptyDict, scan_stats |-> ZeroStats]
       /\ \A d \in ScanDirectories, r \in BOOLEAN, o \in WalkOrders :
            ScanStep(d, r, o) => OnlyThisScan(fs, Candidates(fs, d, r, o), Handler')]_vars

\* a.jpg was scanned in /in and copied, and a later scan of /out has its copy,
\* of the same hash, as a record
C11_Witness ==
    /\ IsFile(fs, <<In, <<"a">> \o Jpg>>)
    /\ \E k \in 1..Len(media_files) :
          /\ heap[media_files[k]].path = <<Out, Y2024, M03, <<"a">> \o Jpg>>
          /\ HashAt(k) = Md5(1)
    /\ scan_stats.duplicates_found = 0

\* C12: a scan of a path that does not exist fails with FileNotFoundError, a
\* scan of a path that is not a directory fails with ValueError, and after
\* the failed call the handler has no record, no hash entry and no statistic.
C12_FailedScanLeavesNothing ==
    [][\A d \in ScanDirectories :
          ScanDirectoryRaises(d) =>
              /\ ~Exists(fs, d) => raised' = "FileNotFoundError"
              /\ Exists(fs, d) /\ ~IsDir(fs, d) => raised' = "ValueError"
              /\ media_files' = <<>>
              /\ heap' = EmptyDict
              /\ file_hashes' = EmptyDict
              /\ scan_stats' = ZeroStats]_vars

\* the regular files a scan enumerates whose extension is no media extension
Unsupported(f, directory, recursive) ==
    {p \in Globbed(f, directory, recursive) : IsFile(f, p) /\ ~IsMediaFile(p)}

\* C13: a scan raises nothing for the enumerated files of unsupported type,
\* has none of them in the catalog, and has counted each of them once in
\* the skipped statistic.
C13_UnsupportedSkippedAndCounted ==
    [][\A d \in ScanDirectories, r \in BOOLEAN, o \in WalkOrders :
          ScanDirectorySequential(d, r, o, DefaultWorkers) =>
              LET unsupported == Unsupported(fs, d, r)
                  paths == CatalogPaths(Handler')
              IN /\ raised' = "none"
                 /\ \A k \in 1..Len(paths) : paths[k] \notin unsupported
                 /\ scan_stats'.skipped_files = Cardinality(unsupported)]_vars

\* What the move or copy of the i-th record of a call with arguments a does
\* to the file system, between the loop states before and after: it creates
\* directories above the destination and the one file it reports as
\* written, removes nothing but the source of a move that succeeded, and
\* leaves every other path as it was.
WritesOnlyItsOwn(a, before, after, i) ==
    LET e == after.log[i]
    IN /\ \A p \in DOMAIN after.fs \ DOMAIN before.fs :
             \/ e.written = <<p>> /\ IsFile(after.fs, p)
             \/ /\ IsDir(after.fs, p)
                /\ e.destination # <<>>
                /\ p \in Ancestors(Parent(e.destination[1]))
       /\ \A p \in DOMAIN before.fs :
             \/ p \in DOMAIN after.fs /\ after.fs[p] = before.fs[p]
             \/ /\ p \notin DOMAIN after.fs
                /\ IsFile(before.fs, p)
                /\ a.operation = "move" /\ e.error = "none" /\ e.written # <<>>
                /\ p = e.source

\* C14: scans, failed scans, clear and set_manual_metadata, and every dry run
\* of organize_files, leave the file system as it is; a file system change
\* is made by a non-dry organize_files only, which per record creates
\* directories and the written file, modifies no path there was, and removes
\* a file only as the source of a move that succeeded.
C14_OnlyOrganizeWrites ==
    [][/\ fs' # fs => \E a \in OrganizeArgs : OrganizeStep(a) /\ ~a.dry_run
       /\ \A a \in OrganizeArgs : (OrganizeStep(a) /\ ~a.dry_run) =>
             LET states == OrganizeStates(a)
             IN /\ fs' = states[Len(media_files) + 1].fs
                /\ \A i \in 1..Len(media_files) :
                      WritesOnlyItsOwn(a, states[i], states[i + 1], i)]_vars

\* a copy created directories and files and removed none, after a scan that
\* read the files and changed none
C14_Witness ==
    /\ org.called /\ ~org.args.dry_run /\ org.args.operation = "copy"
    /\ DOMAIN SmallTree \subseteq DOMAIN fs
    /\ \A p \in DOMAIN SmallTree : fs[p] = SmallTree[p]
    /\ \E i \in 1..Len(org.log) :
          /\ org.log[i].written # <<>>
          /\ IsFile(fs, org.log[i].written[1])
          /\ org.log[i].written[1] \notin DOMAIN SmallTree
          /\ IsFile(fs, org.log[i].source)
    /\ \E i \in 1..Len(org.log) : org.log[i].error # "none"

\* the step ends with the return of method op of record id
Returned(op, id) == ret'.op = op /\ ret'.id = id

\* C15: get_combined_metadata returns a map over the keys of metadata and
\* manual_metadata that has the manual value for every key of
\* manual_metadata, shared keys included, and the extracted value for every
\* other key, and it leaves both maps of the record as they were.
C15_ManualWins ==
    [][\A id \in 1..Len(RecordPaths) :
          (Returned("get_combined_metadata", id) /\ GetCombinedMetadataCall(id)) =>
          LET obj == heap[id]
              combined == ret'.value
          IN /\ DOMAIN combined = DOMAIN obj.metadata \cup DOMAIN obj.manual_metadata
             /\ \A k \in DOMAIN obj.metadata \cap DOMAIN obj.manual_metadata :
                   combined[k] = obj.manual_metadata[k]
             /\ \A k \in DOMAIN obj.metadata \ DOMAIN obj.manual_metadata :
                   combined[k] = obj.metadata[k]
             /\ \A k \in DOMAIN obj.manual_metadata \ DOMAIN obj.metadata :
                   combined[k] = obj.manual_metadata[k]
             /\ heap'[id].metadata = obj.metadata
             /\ heap'[id].manual_metadata = obj.manual_metadata]_vars

\* the combined metadata of a record whose two maps disagree on a key was
\* returned, with keys of one map only beside it
C15_Witness ==
    /\ ret.op = "get_combined_metadata"
    /\ LET obj == heap[ret.id]
       IN /\ \E k \in DOMAIN obj.metadata \cap DOMAIN obj.manual_metadata :
                /\ obj.metadata[k] # obj.manual_metadata[k]
                /\ ret.value[k] = obj.manual_metadata[k]
          /\ DOMAIN obj.metadata \ DOMAIN obj.manual_metadata # {}
          /\ DOMAIN obj.manual_metadata \ DOMAIN obj.metadata # {}

\* the variable names the folder template and the filename template share
SharedNames == {"type", "year", "month", "day", "camera_make", "camera_model"}

\* C16: in every organize_files call, for every record of the catalog and
\* every variable name the two templates share, the value the folder
\* template gets is the value the filename template gets.
C16_FolderVarsAsFilenameVars ==
    [][\A a \in OrganizeArgs : OrganizeStep(a) =>
          \A i \in 1..Len(media_files) :
             LET media_file == heap[media_files[i]]
                 folder_vars == GetFolderTemplateVars(media_file)
                 template_vars == TemplateVars(media_file)
             IN \A n \in SharedNames : folder_vars[<<"", n>>] = template_vars[<<"", n>>]]_vars

\* the positions of template whose placeholder is no key of tvars
MissingAt(template, tvars) ==
    {i \in 1..Len(template) :
        "var" \in DOMAIN template[i] /\ template[i].var \notin DOMAIN tvars}

\* The i-th record of a call with arguments a, between the loop states
\* before and after: if a placeholder of the filename template is missing,
\* generate_output_filename fails naming the first such placeholder; if a
\* placeholder of either template is missing, the record is counted as one
\* error and no more, nothing is written and the file system is unchanged.
MissingVariableIsOneError(a, before, after, i) ==
    LET media_file == before.heap[media_files[i]]
        no_name == MissingAt(a.filename_template, TemplateVars(media_file))
        no_folder == MissingAt(a.folder_structure, GetFolderTemplateVars(media_file))
        rendered == GenerateOutputFilename(media_file, a.filename_template)
    IN /\ no_name # {} =>
             /\ ~rendered.ok
             /\ rendered.key = a.filename_template[CHOOSE k \in no_name :
                                                       \A l \in no_name : k <= l].var
             /\ after.log[i].error = "ValueError"
       /\ no_name = {} => rendered.ok
       /\ (no_name # {} \/ no_folder # {}) =>
             /\ after.fs = before.fs
             /\ after.stats.errors = before.stats.errors + 1
             /\ after.stats.processed = before.stats.processed
             /\ after.log[i].error # "none"
             /\ after.log[i].written = <<>>
             /\ after.heap[media_files[i]].path = media_file.path

\* C17: generate_output_filename fails with a ValueError that names the
\* missing placeholder; in organize_files a record whose filename template
\* or folder template has a missing placeholder is one error, has no effect
\* on the file system, and the records after it are handled as well.
C17_MissingVariableCounted ==
    [][\A a \in OrganizeArgs : OrganizeStep(a) =>
          LET states == OrganizeStates(a)
              last == states[Len(media_files) + 1]
          IN /\ \A i \in 1..Len(media_files) :
                   MissingVariableIsOneError(a, states[i], states[i + 1], i)
             /\ Len(last.log) = Len(media_files)
             /\ org'.log = last.log
             /\ org'.stats = last.stats
             /\ fs' = last.fs
             /\ org'.stats.processed + org'.stats.errors = Len(media_files)]_vars

\* a move in which a record without title failed on {manual_title} and a
\* later record, with a title, was moved
C17_Witness ==
    /\ org.called /\ ~org.args.dry_run /\ org.args.operation = "move"
    /\ \E i, j \in 1..Len(org.log) :
          /\ i < j
          /\ org.log[i].error = "ValueError"
          /\ IsFile(fs, org.log[i].source)
          /\ org.log[j].error = "none"
          /\ org.log[j].written # <<>>
          /\ IsFile(fs, org.log[j].written[1])
    /\ org.stats.errors >= 1 /\ org.stats.processed >= 1

\* the two decimal digits of n < 100
TwoDigits(n) == <<Digit[(n \div 10) + 1], Digit[(n % 10) + 1]>>

\* The date the claim names for a record: date_taken for an image that has
\* it, date_created for a video that has it, otherwise created_date; <<>> if
\* the record has none of these.  "Has" is by the combined metadata.
DateUsed(obj) ==
    LET has == [k \in {"date_taken", "date_created", "created_date"} |->
                   k \in DOMAIN obj.metadata \cup DOMAIN obj.manual_metadata]
        value(k) == IF k \in DOMAIN obj.manual_metadata THEN obj.manual_metadata[k]
                    ELSE obj.metadata[k]
    IN IF obj.type = "image" /\ has["date_taken"] THEN <<value("date_taken")>>
       ELSE IF obj.type = "video" /\ has["date_created"] THEN <<value("date_created")>>
       ELSE IF has["created_date"] THEN <<value("created_date")>>
       ELSE <<>>

\* "{year}-{month}-{day}_{original_name}{extension}" for a record whose date
\* is used: the year as it is, month and day in two digits, or the three
\* fields empty without a date
DatedName(obj) ==
    LET used == DateUsed(obj)
        year == IF used = <<>> THEN <<>> ELSE IntStr(used[1].year)
        month == IF used = <<>> THEN <<>> ELSE TwoDigits(used[1].month)
        day == IF used = <<>> THEN <<>> ELSE TwoDigits(used[1].day)
    IN year \o <<"-">> \o month \o <<"-">> \o day \o <<"_">> \o Name(obj.path)

C19_OnlyRegularFiles ==
    [][\A id \in 1..Len(RecordPaths), type \in TypeArguments, md \in MetadataArguments :
          (Returned("MediaFile", id) /\ MediaFileCall(id, type, md)) =>
             /\ raised' = "none" => IsFile(fs, RecordPaths[id])
             /\ ~IsFile(fs, RecordPaths[id]) => raised' # "none" /\ heap' = heap]_vars

\* C20: extract_metadata raises nothing, and a call in which the extraction
\* of the universal fields fails (the file cannot be stat'ed or read) leaves
\* the record with the keys filename and error in its metadata.
C20_FailureLeavesFilenameAndError ==
    [][\A id \in 1..Len(RecordPaths) :
          (Returned("extract_metadata", id) /\ ExtractMetadataCall(id)) =>
             /\ raised' = "none"
             /\ ~(IsFile(fs, heap[id].path) /\ fs[heap[id].path].readable) =>
                   {"filename", "error"} \subseteq DOMAIN heap'[id].metadata]_vars

\* the step extracts the metadata of a record: an object with extracted
\* metadata comes to exist, or the hash read for a duplicate is counted
ExtractsMetadata ==
    \/ \E id \in DOMAIN heap' \ DOMAIN heap : heap'[id].metadata # EmptyDict
    \/ scan_stats'.duplicates_found # scan_stats.duplicates_found

\* C21: while a parallel scan runs, every step that extracts the metadata
\* of a candidate (stat and hash of the file) is a step of a pool thread, so
\* that the extractions of two candidates can overlap.
C21_ExtractionInPool ==
    [][(pc = "parallel" /\ ExtractsMetadata) =>
          \E t \in DOMAIN running : WorkerCreate(t) \/ WorkerStore(t)]_vars

\* stem_k.ext beside stem.ext
Alternative(d, k) == Parent(d) \o <<Stem(Name(d)) \o <<"_">> \o IntStr(k) \o Suffix(Name(d))>>

\* The i-th record of a call with arguments a, between the loop states
\* before and after, when its computed destination d exists: there is a
\* smallest k >= 1 with stem_k.ext free, stem and ext being those of d, and
\* a move or copy that succeeds writes there.
WritesSmallestFree(a, before, after, i) ==
    LET e == after.log[i]
        d == e.destination[1]
    IN (e.destination # <<>> /\ Exists(before.fs, d)) =>
          \E k \in 1..(Cardinality(DOMAIN before.fs) + 1) :
             /\ \A j \in 1..(k - 1) : Exists(before.fs, Alternative(d, j))
             /\ ~Exists(before.fs, Alternative(d, k))
             /\ e.error = "none" =>
                   /\ e.written = <<Alternative(d, k)>>
                   /\ IsFile(after.fs, Alternative(d, k))
                   /\ after.fs[Alternative(d, k)].content =
                         before.fs[before.heap[media_files[i]].path].content

\* C22: every non-dry organize_files call returns, with an entry for every
\* record, and a record whose destination exists is written to stem_k.ext
\* for the smallest k >= 1 for which that name is free, stem and ext taken
\* from the destination first computed.
C22_SmallestFreeSuffix ==
    [][\A a \in OrganizeArgs : (OrganizeStep(a) /\ ~a.dry_run) =>
          LET states == OrganizeStates(a)
          IN /\ \A i \in 1..Len(media_files) :
                   WritesSmallestFree(a, states[i], states[i + 1], i)
             /\ Len(org'.log) = Len(media_files)
             /\ org'.log = states[Len(media_files) + 1].log]_vars

\* a record whose destination and stem_1.ext both existed was written to
\* stem_2.ext or beyond
C22_Witness ==
    /\ org.called /\ ~org.args.dry_run
    /\ \E i \in 1..Len(org.log) :
          /\ org.log[i].written # <<>>
          /\ org.log[i].error = "none"
          /\ \E k \in 2..3 :
                org.log[i].written = <<Alternative(org.log[i].destination[1], k)>>
          /\ IsFile(fs, org.log[i].destination[1])
          /\ IsFile(fs, Alternative(org.log[i].destination[1], 1))
          /\ IsFile(fs, org.log[i].written[1])

\* the characters line 293 lets through that are no letters or digits
Punctuation == {".", "_", "-", "(", ")", " "}

\* C23: a filename generate_output_filename returns has only letters,
\* digits and the characters . _ - ( ) and space, has no two spaces in a
\* row, and is left as it is by the sanitization of lines 293-294.
C23_SanitizedName ==
    [][\A id \in 1..Len(RecordPaths), template \in RecordTemplates :
          (Returned("generate_output_filename", id)
             /\ GenerateOutputFilenameCall(id, template)
             /\ ret'.value.ok) =>
             LET filename == ret'.value.text
             IN /\ \A n \in 1..Len(filename) :
                      IsAlnum(filename[n]) \/ filename[n] \in Punctuation
                /\ \A n \in 1..(Len(filename) - 1) :
                      ~(filename[n] = " " /\ filename[n + 1] = " ")
                /\ JoinSplit(KeepValid(filename)) = filename]_vars

\* "{manual_title} {camera_make}{extension}" was rendered for an image whose
\* manual camera_make has a separator, a tab and spaces: x C.jpg
C23_Witness ==
    /\ ret.op = "generate_output_filename"
    /\ ret.filename_template = TitledTemplate
    /\ ret.value.ok
    /\ heap[ret.id].type = "image"
    /\ "camera_make" \in DOMAIN heap[ret.id].manual_metadata
    /\ "/" \in {heap[ret.id].manual_metadata["camera_make"][n] :
                   n \in 1..Len(heap[ret.id].manual_metadata["camera_make"])}
    /\ "title" \in DOMAIN heap[ret.id].manual_metadata
    /\ ret.value.text = <<"x", " ", "C">> \o Jpg

\* C24: every path a non-dry organize_files call creates lies inside
\* output_directory, and so does every destination it reports as written.
C24_WritesInsideOutput ==
    [][\A a \in OrganizeArgs : (OrganizeStep(a) /\ ~a.dry_run) =>
          /\ \A p \in DOMAIN fs' \ DOMAIN fs :
                IsPrefix(a.output_directory, p) /\ p # a.output_directory
          /\ \A i \in 1..Len(org'.log) :
                org'.log[i].written # <<>> =>
                   IsPrefix(a.output_directory, org'.log[i].written[1])]_vars

\* C25: whenever no scan is running, the scan's candidates are all counted:
\* total_files_found is the sum of images_found, videos_found,
\* duplicates_found, errors and skipped_files.
C25_EveryCandidateCounted ==
    pc = "idle" =>
       scan_stats.total_files_found =
          scan_stats.images_found + scan_stats.videos_found
             + scan_stats.duplicates_found + scan_stats.errors
             + scan_stats.skipped_files

\* C26: for every file of a scan that passes the extension filter, the kind
\* the handler assigns is the kind the record's own detection finds, and the
\* construction of its record does not fail.
C26_ClassifiersAgree ==
    [][\A d \in ScanDirectories, r \in BOOLEAN, o \in WalkOrders :
          ScanStep(d, r, o) =>
              \A p \in {q \in Globbed(fs, d, r) : IsFile(fs, q) /\ IsMediaFile(q)} :
                 /\ FileDetectFileType(p) = HandlerDetectFileType(p)
                 /\ PostInit(fs, p, HandlerDetectFileType(p)) = "ok"]_vars

\* C27: a record whose move or copy fails on the file system keeps its path,
\* metadata and manual metadata, the failure is reported for that record as
\* the wrapping RuntimeError, and organize_files counts one error for each
\* failed record and counts no failed record as processed.
C27_FailedMoveOrCopy ==
    [][\A a \in OrganizeArgs : (OrganizeStep(a) /\ ~a.dry_run) =>
          LET log == org'.log
              failed == {i \in 1..Len(log) : log[i].error # "none"}
          IN /\ \A i \in failed :
                   log[i].destination # <<>> =>
                      /\ log[i].error = "RuntimeError"
                      /\ heap'[media_files[i]] = heap[media_files[i]]
             /\ org'.stats.errors = Cardinality(failed)
             /\ org'.stats.processed = Len(log) - Cardinality(failed)]_vars

\* the i-th record of a move with arguments a renders to the path its file
\* is at, between the loop states before and after
MovedOntoItself(a, before, after, i) ==
    /\ a.operation = "move" /\ ~a.dry_run
    /\ after.log[i].destination = <<before.heap[media_files[i]].path>>
    /\ IsFile(before.fs, before.heap[media_files[i]].path)

\* C28 as stated: a move whose computed destination is the record's own
\* path renames the file to stem_1.ext beside it.
C28_RenamedToFirstAlternative ==
    [][\A a \in OrganizeArgs : OrganizeStep(a) =>
          LET states == OrganizeStates(a)
          IN \A i \in 1..Len(media_files) :
                MovedOntoItself(a, states[i], states[i + 1], i) =>
                   states[i + 1].log[i].written =
                      <<FirstAlternative(states[i].heap[media_files[i]].path)>>]_vars

\* C28: a move whose computed destination is the record's own path does not
\* leave the file in place: it succeeds and renames the file to stem_k.ext
\* for the smallest k >= 1 for which that name is free (stem_1.ext when
\* that is free), the old path is gone and the record has the new path.
C28_MoveOntoItselfRenames ==
    [][\A a \in OrganizeArgs : OrganizeStep(a) =>
          LET states == OrganizeStates(a)
          IN \A i \in 1..Len(media_files) :
                MovedOntoItself(a, states[i], states[i + 1], i) =>
                   LET before == states[i]
                       after == states[i + 1]
                       own == before.heap[media_files[i]].path
                       e == after.log[i]
                   IN /\ e.error = "none"
                      /\ e.written # <<own>>
                      /\ \E k \in 1..(Cardinality(DOMAIN before.fs) + 1) :
                            /\ \A j \in 1..(k - 1) : Exists(before.fs, Alternative(own, j))
                            /\ ~Exists(before.fs, Alternative(own, k))
                            /\ e.written = <<Alternative(own, k)>>
                      /\ ~Exists(after.fs, own)
                      /\ IsFile(after.fs, e.written[1])
                      /\ after.fs[e.written[1]].content = before.fs[own].content
                      /\ after.heap[media_files[i]].path = e.written[1]]_vars

\* /out/2024/03/c.mp4 was moved with the templates that render to its own
\* path and is now c_1.mp4 beside its old, free name
C28_Witness ==
    /\ org.called /\ ~org.args.dry_run /\ org.args.operation = "move"
    /\ \E i \in 1..Len(org.log) :
          /\ org.log[i].source = <<Out, Y2024, M03, <<"c">> \o Mp4>>
          /\ org.log[i].destination = <<org.log[i].source>>
          /\ org.log[i].written = <<FirstAlternative(org.log[i].source)>>
          /\ heap[media_files[i]].path = org.log[i].written[1]
          /\ IsFile(fs, org.log[i].written[1])
          /\ ~Exists(fs, org.log[i].source)

\* C29: every record of a scan whose metadata extraction failed (its file
\* cannot be read, so there is no file_hash) is in the catalog, without
\* file_hash and under no key of the hash index, and is counted as an image
\* or a video: errors counts only the files whose construction failed,
\* duplicates_found only files with a hash, and images_found + videos_found
\* is the length of the catalog.
C29_UnhashedRecordKept ==
    [][\A d \in ScanDirectories, r \in BOOLEAN, o \in WalkOrders :
          ScanStep(d, r, o) =>
             \A files \in {{p \in Globbed(fs, d, r) : IsFile(fs, p) /\ IsMediaFile(p)}} :
             \A created \in {{p \in files : CreateOutcome(fs, p) = "created"}} :
             \A unhashed \in {{p \in created : ~fs[p].readable}} :
                /\ \A p \in unhashed :
                      \E k \in 1..Len(media_files') :
                         /\ heap'[media_files'[k]].path = p
                         /\ "file_hash" \notin DOMAIN heap'[media_files'[k]].metadata
                         /\ heap'[media_files'[k]].type \in {"image", "video"}
                         /\ \A key \in DOMAIN file_hashes' :
                               file_hashes'[key] # media_files'[k]
                /\ scan_stats'.errors = Cardinality(files \ created)
                /\ scan_stats'.images_found + scan_stats'.videos_found = Len(media_files')
                /\ scan_stats'.duplicates_found =
                      Cardinality(created) - Len(media_files')
                /\ scan_stats'.duplicates_found <=
                      Cardinality(created \ unhashed)]_vars

\* the scan of /in has the unreadable e.jpg as a record with an error and no
\* hash, beside a duplicate that was dropped and a file that was an error
C29_Witness ==
    /\ pc = "idle"
    /\ scan_stats.duplicates_found = 1
    /\ scan_stats.errors = 1
    /\ \E k \in 1..Len(media_files) :
          /\ heap[media_files[k]].path = <<In, <<"e">> \o Jpg>>
          /\ "error" \in DOMAIN heap[media_files[k]].metadata
          /\ "file_hash" \notin DOMAIN heap[media_files[k]].metadata
          /\ scan_stats.images_found + scan_stats.videos_found = Len(media_files)

\* the positions of the catalog whose record carries a file_hash
Hashed == {k \in 1..Len(media_files) :
              "file_hash" \in DOMAIN heap[media_files[k]].metadata}

\* C30: whenever no scan is in progress, the keys of _file_hashes are the
\* file_hash values of the records of media_files, and every key maps to a
\* record of media_files that carries that hash.
C30_HashIndexMatchesCatalog ==
    pc = "idle" =>
       /\ DOMAIN file_hashes = {HashAt(k) : k \in Hashed}
       /\ \A key \in DOMAIN file_hashes :
             \E k \in Hashed : media_files[k] = file_hashes[key] /\ HashAt(k) = key

\* after a move of a scanned catalog the index still holds the hash of a
\* record that now lies below /out, beside a record without hash
C30_Witness ==
    /\ pc = "idle"
    /\ org.called /\ ~org.args.dry_run /\ org.args.operation = "move"
    /\ Hashed # {} /\ Hashed # 1..Len(media_files)
    /\ \E k \in Hashed :
          /\ IsPrefix(<<Out>>, heap[media_files[k]].path)
          /\ org.log[k].source # heap[media_files[k]].path
          /\ file_hashes[HashAt(k)] = media_files[k]

====
